---- MODULE Spec2Model ----
(***************************************************************************)
(* A model of the rule induction core of SyndromeLearner: the sequential   *)
(* driver (SequentialRuleModelInduction::induceRules), the top-down rule   *)
(* induction (TopDownRuleInduction::induceRule), the exact refinement      *)
(* search (ExactRuleRefinement::findRefinement), the thresholds subset     *)
(* (ExactThresholds::ThresholdsSubset) and the label-wise statistics       *)
(* (tsa::LabelWiseStatistics).                                             *)
(*                                                                         *)
(* Feature values and thresholds are kept in half-units: the model value v *)
(* stands for the float32 v/2.  All feature values are even, so that the   *)
(* arithmetic mean of two values and the half of a value are integers.     *)
(*                                                                         *)
(* A uint32 counter is kept as its two's complement representative: a      *)
(* negative model value k stands for the counter value 2^32 + k.           *)
(***************************************************************************)
EXTENDS Integers, Sequences, FiniteSets, TLC

----------------------------------------------------------------------------
(* Bounds of the model *)

\* The largest ground-truth count of a time slot
MaxGroundTruth == 1

\* The largest number of stopping criteria in the list handed to the driver
MaxCriteria == 2

\* The largest number of elements of a feature vector that adjustSplit is called
\* with on its own
MaxSplitLength == 4

\* The largest number of rows of a label matrix that is constructed on its own
MaxNumRows == 4

----------------------------------------------------------------------------
(* Compile-time switches of the refinement search *)

USE_NEQ == FALSE

USE_LEQ == TRUE

----------------------------------------------------------------------------
(* Generic helpers *)


Range(f) == {f[x] : x \in DOMAIN f}

Abs(x) == IF x < 0 THEN -x ELSE x

RECURSIVE SumOver(_, _)
SumOver(f, S) ==
    IF S = {} THEN 0
    ELSE LET x == CHOOSE y \in S : TRUE IN f[x] + SumOver(f, S \ {x})

\* A threshold at the smaller one of two values instead of their mean
smallerValue(small, large) == small

\* `arithmeticMean` of two float32 values (in half-units, both even)
arithmeticMean(small, large) == small + ((large - small) \div 2)

\* A product that leaves the value as it is
Whole(v) == v

\* The product of a float32 value (in half-units, even) and 0.5
Half(v) == v \div 2

----------------------------------------------------------------------------
(* The inputs of a training run.  They are chosen by Init and never change. *)

VARIABLES
    numRows,            \* the number of training examples (ILabelMatrix::getNumRows)
    timeSlots,          \* CContiguousLabelMatrix::timeSlots_: example -> time slot
    groundTruth,        \* CContiguousLabelMatrix::values_: time slot -> count
    featureValues,      \* the feature matrix: feature -> example -> value
    missingValues,      \* feature -> the examples whose value is missing (NaN)
    nominalMask,        \* INominalFeatureMask: feature -> BOOLEAN
    minCoverage,        \* (uint32) (minSupport_ * numExamples)
    maxConditions,      \* TopDownRuleInduction::maxConditions_
    hasDefaultRule,     \* defaultRuleHeadRefinementFactoryPtr_ != nullptr
    instanceSampling,   \* TRUE: RandomInstanceSubsetSelection, FALSE: no sampling
    featureSampling,    \* TRUE: the features are sampled anew in every iteration
    numCriteria         \* the length of the list of stopping criteria

inputVars == <<numRows, timeSlots, groundTruth, featureValues, missingValues, nominalMask,
               minCoverage, maxConditions, hasDefaultRule, instanceSampling,
               featureSampling, numCriteria>>

ExampleIndices == 0..(numRows - 1)

TimeSlotIndices == DOMAIN groundTruth

FeatureIndices == DOMAIN featureValues

\* The examples of a time slot: indices_[t] .. indices_[t + 1] - 1
SlotExamples(t) == {i \in ExampleIndices : timeSlots[i] = t}

----------------------------------------------------------------------------
(* Quality scores.  A score is NaN, +infinity, or the finite value         *)
(* -sqrt(num2 / den), kept as the pair (num2, den) with den > 0.           *)

NaNScore == [kind |-> "nan", num2 |-> 0, den |-> 1]

InfScore == [kind |-> "inf", num2 |-> 0, den |-> 1]

\* A null pointer to a head (AbstractEvaluatedPrediction*)
NoHead == [kind |-> "none", num2 |-> 0, den |-> 1]

ZeroScore == [kind |-> "fin", num2 |-> 0, den |-> 1]

\* A comparison of two scores that takes NaN to be smaller than every score
ScoreLessOrNaN(a, b) ==
    \/ a.kind = "nan"
    \/ /\ a.kind = "fin"
       /\ \/ b.kind = "inf"
          \/ b.kind = "fin" /\ a.num2 * b.den > b.num2 * a.den

\* The comparison a < b of two float64 scores
ScoreLess(a, b) ==
    /\ a.kind = "fin"
    /\ \/ b.kind = "inf"
       \/ b.kind = "fin" /\ a.num2 * b.den > b.num2 * a.den

\* The comparison a == b of two float64 scores (NaN equals nothing)
ScoreEqual(a, b) ==
    \/ a.kind = "inf" /\ b.kind = "inf"
    \/ a.kind = "fin" /\ b.kind = "fin" /\ a.num2 * b.den = b.num2 * a.den

\* The float64 image of a vector of uint32 counters, up to the common scale that
\* the correlation cancels: a wrapped counter (2^32 + k) exceeds every other
\* counter by a factor of 2^30 and more, so that the correlation is the one of the
\* indicator of the wrapped slots; if every counter is wrapped the common offset
\* 2^32 cancels.
CounterImage(y) ==
    LET wrapped == {t \in DOMAIN y : y[t] < 0}
    IN  IF wrapped # {} /\ wrapped # DOMAIN y
        THEN [t \in DOMAIN y |-> IF t \in wrapped THEN 1 ELSE 0]
        ELSE y

\* A score that takes a constant ground truth or a constant prediction to be
\* perfectly correlated
calculateLabelWisePredictionOfConstants(predictions) ==
    LET T == DOMAIN predictions
        y == CounterImage(predictions)
        x == groundTruth
        n == Cardinality(T)
        xSum == SumOver(x, T)
        ySum == SumOver(y, T)
        xSquaredSum == SumOver([t \in T |-> x[t] * x[t]], T)
        ySquaredSum == SumOver([t \in T |-> y[t] * y[t]], T)
        productSum == SumOver([t \in T |-> x[t] * y[t]], T)
        numerator == (n * productSum) - (xSum * ySum)
        radicand1 == (n * xSquaredSum) - (xSum * xSum)
        radicand2 == (n * ySquaredSum) - (ySum * ySum)
    IN  IF radicand1 = 0 \/ radicand2 = 0
        THEN [kind |-> "fin", num2 |-> 1, den |-> 1]
        ELSE [kind |-> "fin", num2 |-> numerator * numerator,
              den |-> radicand1 * radicand2]

\* RegularizedLabelWiseRuleEvaluation::calculateLabelWisePrediction
calculateLabelWisePrediction(predictions) ==
    LET T == DOMAIN predictions
        y == CounterImage(predictions)
        x == groundTruth
        n == Cardinality(T)
        xSum == SumOver(x, T)
        ySum == SumOver(y, T)
        xSquaredSum == SumOver([t \in T |-> x[t] * x[t]], T)
        ySquaredSum == SumOver([t \in T |-> y[t] * y[t]], T)
        productSum == SumOver([t \in T |-> x[t] * y[t]], T)
        numerator == (n * productSum) - (xSum * ySum)
        radicand1 == (n * xSquaredSum) - (xSum * xSum)
        radicand2 == (n * ySquaredSum) - (ySum * ySum)
    IN  IF radicand1 = 0 \/ radicand2 = 0
        THEN NaNScore
        ELSE [kind |-> "fin", num2 |-> numerator * numerator,
              den |-> radicand1 * radicand2]

\* IHeadRefinement::findHead: is the candidate score accepted as the new best head?
findHead(bestHead, score) ==
    bestHead = NoHead \/ ScoreLess(score, bestHead)

\* The overall quality score of a refinement's head; +infinity without a head
HeadScore(head) == IF head = NoHead THEN InfScore ELSE head

\* Refinement::isBetterThan
isBetterThan(refinement, another) ==
    ScoreLess(HeadScore(refinement.head), HeadScore(another.head))

\* The comparison of two uint32 values, a >= b, where b is not wrapped
U32Geq(a, b) == a < 0 \/ a >= b

----------------------------------------------------------------------------
(* Feature vectors *)

\* The elements of a set of (value, index) pairs in ascending order of the values
\* (FeatureVector::sortByValues); equal values are kept in the order of the indices
RECURSIVE SortByValues(_)
SortByValues(S) ==
    IF S = {} THEN <<>>
    ELSE LET m == CHOOSE e \in S : \A o \in S :
                      \/ e.value < o.value
                      \/ e.value = o.value /\ e.index <= o.index
         IN  <<m>> \o SortByValues(S \ {m})

\* IFeatureMatrix::fetchFeatureVector followed by FeatureVector::sortByValues: the
\* examples with a value other than zero, and the examples with a missing value
FetchFeatureVector(j) ==
    [elements |-> SortByValues({[value |-> featureValues[j][i], index |-> i] :
                     i \in {k \in ExampleIndices : /\ k \notin missingValues[j]
                                                    /\ featureValues[j][k] # 0}}),
     missing  |-> missingValues[j]]

\* The elements of a vector at the positions [from, to), in order
SubVector(elements, from, to) ==
    [k \in 1..(IF to > from THEN to - from ELSE 0) |-> elements[from + k]]

----------------------------------------------------------------------------
(* The statistics subset (LabelWiseStatistics::StatisticsSubset) and the      *)
(* refinement search (ExactRuleRefinement::findRefinement).                   *)
(*                                                                            *)
(* A search context c holds what the callback hands to the search:            *)
(*   elements, missing   the (filtered) feature vector                        *)
(*   weights             the weights of the examples                          *)
(*   coverageCount, prediction, totalPrediction   the statistics              *)
(*   numExamples         ExactRuleRefinement::numExamples_                    *)
(*   nominal, featureIndex, minCoverage                                       *)
(* A search state s holds the locals of findRefinement and the subset.        *)

EQ == "EQ"

NEQ == "NEQ"

LEQ == "LEQ"

GR == "GR"

\* Refinement::Refinement()
EmptyRefinement ==
    [featureIndex |-> 0, start |-> 0, end |-> 0, previous |-> 0, numCovered |-> 0,
     covered |-> FALSE, comparator |-> LEQ, threshold |-> 0, head |-> NoHead]

\* StatisticsSubset::StatisticsSubset
NewSubset(c, currentHead) ==
    [covered |-> c.prediction, uncovered |-> c.totalPrediction,
     accumulated |-> FALSE,
     accumulatedCovered |-> c.prediction, accumulatedUncovered |-> c.totalPrediction,
     bestHead |-> currentHead, headPtr |-> NoHead,
     refinement |-> [EmptyRefinement EXCEPT !.featureIndex = c.featureIndex],
     numExamples |-> 0, accumulatedNumExamples |-> 0, firstR |-> 0,
     lastNegativeR |-> -1, previousThreshold |-> 0, previousR |-> 0, r |-> 0,
     previousThresholdNegative |-> 0, previousRNegative |-> 0,
     accumulatedNumExamplesNegative |-> 0]

\* StatisticsSubset::addToMissing
addToMissing(c, s, i) ==
    IF c.coverageCount[i] = 0
    THEN [s EXCEPT !.uncovered[timeSlots[i]] = @ - 1]
    ELSE s

\* StatisticsSubset::addToSubset
addToSubset(c, s, i) ==
    IF c.coverageCount[i] = 0
    THEN LET t == timeSlots[i]
         IN  [s EXCEPT !.covered[t] = @ + 1,
                       !.uncovered[t] = @ - 1,
                       !.accumulatedCovered[t] = IF s.accumulated THEN @ + 1 ELSE @,
                       !.accumulatedUncovered[t] = IF s.accumulated THEN @ - 1 ELSE @]
    ELSE s

\* StatisticsSubset::resetSubset
resetSubset(c, s) ==
    [s EXCEPT !.accumulated = TRUE,
              !.accumulatedCovered = IF s.accumulated THEN @ ELSE s.covered,
              !.accumulatedUncovered = IF s.accumulated THEN @ ELSE s.uncovered,
              !.covered = c.prediction,
              !.uncovered = c.totalPrediction]

\* StatisticsSubset::calculateLabelWisePrediction
SubsetScore(s, uncovered, accumulated) ==
    calculateLabelWisePrediction(
        IF uncovered
        THEN (IF accumulated THEN s.accumulatedUncovered ELSE s.uncovered)
        ELSE (IF accumulated THEN s.accumulatedCovered ELSE s.covered))

\* The pattern `head = findHead(bestHead, subset, uncovered, accumulated); if (head
\* != nullptr) { bestHead = head; refinementPtr->... = ...; }` of findRefinement
Evaluate(s, enabled, uncovered, accumulated, fields) ==
    IF ~enabled THEN s
    ELSE LET score == SubsetScore(s, uncovered, accumulated)
         IN  IF findHead(s.bestHead, score)
             THEN [s EXCEPT !.bestHead = score, !.headPtr = score,
                            !.refinement = [featureIndex |-> s.refinement.featureIndex,
                                            start |-> fields.start, end |-> fields.end,
                                            previous |-> fields.previous,
                                            numCovered |-> fields.numCovered,
                                            covered |-> fields.covered,
                                            comparator |-> fields.comparator,
                                            threshold |-> fields.threshold,
                                            head |-> NoHead]]
             ELSE s

Fields(start, end, previous, numCovered, covered, comparator, threshold) ==
    [start |-> start, end |-> end, previous |-> previous, numCovered |-> numCovered,
     covered |-> covered, comparator |-> comparator, threshold |-> threshold]

\* findRefinement, lines 53-72: the examples with feature values < 0, in ascending
\* order, up to the first one with a weight > 0
RECURSIVE NegativeFirst(_, _, _)
NegativeFirst(c, s, r) ==
    IF r >= Len(c.elements) THEN [s EXCEPT !.r = r]
    ELSE LET e == c.elements[r + 1]
         IN  IF e.value >= 0 THEN [s EXCEPT !.r = r]
             ELSE LET s1 == [s EXCEPT !.lastNegativeR = r]
                  IN  IF c.weights[e.index] > 0
                      THEN [addToSubset(c, s1, e.index) EXCEPT
                                !.numExamples = @ + 1,
                                !.previousThreshold = e.value,
                                !.previousR = r,
                                !.r = r]
                      ELSE NegativeFirst(c, s1, r + 1)

\* findRefinement, lines 92-156: a split point between two examples with weights > 0
\* and different feature values < 0
NegativeSplit(c, s, r, currentThreshold) ==
    LET threshold == IF c.nominal THEN s.previousThreshold
                     ELSE arithmeticMean(s.previousThreshold, currentThreshold)
        s1 == Evaluate(s, s.numExamples >= c.minCoverage /\ (c.nominal \/ USE_LEQ),
                       FALSE, FALSE,
                       Fields(s.firstR, r, s.previousR, s.numExamples, TRUE,
                              IF c.nominal THEN EQ ELSE LEQ, threshold))
        numCovered == c.numExamples - s.numExamples
        s2 == Evaluate(s1, U32Geq(numCovered, c.minCoverage) /\ (~c.nominal \/ USE_NEQ),
                       TRUE, FALSE,
                       Fields(s.firstR, r, s.previousR, numCovered, FALSE,
                              IF c.nominal THEN NEQ ELSE GR, threshold))
    IN  IF c.nominal
        THEN [resetSubset(c, s2) EXCEPT !.numExamples = 0, !.firstR = r]
        ELSE s2

\* findRefinement, lines 78-166: the remaining examples with feature values < 0
RECURSIVE NegativeRest(_, _, _)
NegativeRest(c, s, r) ==
    IF r >= Len(c.elements) THEN s
    ELSE LET e == c.elements[r + 1]
         IN  IF e.value >= 0 THEN s
             ELSE LET s1 == [s EXCEPT !.lastNegativeR = r]
                  IN  IF c.weights[e.index] > 0
                      THEN LET s2 == IF s1.previousThreshold # e.value
                                     THEN NegativeSplit(c, s1, r, e.value)
                                     ELSE s1
                               s3 == [addToSubset(c, s2, e.index) EXCEPT
                                         !.previousThreshold = e.value,
                                         !.previousR = r,
                                         !.numExamples = @ + 1,
                                         !.accumulatedNumExamples = @ + 1]
                           IN  NegativeRest(c, s3, r + 1)
                      ELSE NegativeRest(c, s1, r + 1)

\* findRefinement, lines 171-214: the last group of a nominal feature's values < 0
NegativeLast(c, s) ==
    IF c.nominal /\ s.numExamples > 0
         /\ (s.numExamples < s.accumulatedNumExamples
               \/ s.accumulatedNumExamples < c.numExamples)
    THEN LET s1 == Evaluate(s, s.numExamples >= c.minCoverage, FALSE, FALSE,
                            Fields(s.firstR, s.lastNegativeR + 1, s.previousR,
                                   s.numExamples, TRUE, EQ, s.previousThreshold))
             numCovered == c.numExamples - s.numExamples
         IN  Evaluate(s1, U32Geq(numCovered, c.minCoverage) /\ USE_NEQ, TRUE, FALSE,
                      Fields(s.firstR, s.lastNegativeR + 1, s.previousR, numCovered,
                             FALSE, NEQ, s.previousThreshold))
    ELSE s

\* findRefinement, lines 43-218: all examples with feature values < 0
NegativePhase(c, s) ==
    LET s1 == NegativeFirst(c, s, 0)
        s2 == [s1 EXCEPT !.accumulatedNumExamples = s1.numExamples]
    IN  IF s2.numExamples > 0
        THEN resetSubset(c, NegativeLast(c, NegativeRest(c, s2, s2.r + 1)))
        ELSE s2

\* findRefinement, lines 230-242: the examples with feature values >= 0, in
\* descending order, up to the first one with a weight > 0
RECURSIVE PositiveFirst(_, _, _)
PositiveFirst(c, s, r) ==
    IF r <= s.lastNegativeR THEN [s EXCEPT !.r = r]
    ELSE LET e == c.elements[r + 1]
         IN  IF c.weights[e.index] > 0
             THEN [addToSubset(c, s, e.index) EXCEPT
                       !.numExamples = @ + 1,
                       !.previousThreshold = e.value,
                       !.previousR = r,
                       !.r = r]
             ELSE PositiveFirst(c, s, r - 1)

\* findRefinement, lines 257-321: a split point between two examples with weights > 0
\* and different feature values >= 0
PositiveSplit(c, s, r, currentThreshold) ==
    LET threshold == IF c.nominal THEN s.previousThreshold
                     ELSE arithmeticMean(currentThreshold, s.previousThreshold)
        s1 == Evaluate(s, s.numExamples >= c.minCoverage, FALSE, FALSE,
                       Fields(s.firstR, r, s.previousR, s.numExamples, TRUE,
                              IF c.nominal THEN EQ ELSE GR, threshold))
        numCovered == c.numExamples - s.numExamples
        s2 == Evaluate(s1, /\ U32Geq(numCovered, c.minCoverage)
                           /\ (IF c.nominal THEN USE_NEQ ELSE USE_LEQ),
                       TRUE, FALSE,
                       Fields(s.firstR, r, s.previousR, numCovered, FALSE,
                              IF c.nominal THEN NEQ ELSE LEQ, threshold))
    IN  IF c.nominal
        THEN [resetSubset(c, s2) EXCEPT !.numExamples = 0, !.firstR = r]
        ELSE s2

\* findRefinement, lines 248-331: the remaining examples with feature values >= 0
RECURSIVE PositiveRest(_, _, _)
PositiveRest(c, s, r) ==
    IF r <= s.lastNegativeR THEN s
    ELSE LET e == c.elements[r + 1]
         IN  IF c.weights[e.index] > 0
             THEN LET s1 == IF s.previousThreshold # e.value
                            THEN PositiveSplit(c, s, r, e.value)
                            ELSE s
                      s2 == [addToSubset(c, s1, e.index) EXCEPT
                                !.previousThreshold = e.value,
                                !.previousR = r,
                                !.numExamples = @ + 1,
                                !.accumulatedNumExamples = @ + 1]
                  IN  PositiveRest(c, s2, r - 1)
             ELSE PositiveRest(c, s, r - 1)

\* findRefinement, lines 337-379: the last group of a nominal feature's values >= 0
PositiveLast(c, s) ==
    IF c.nominal /\ s.numExamples > 0 /\ s.numExamples < s.accumulatedNumExamples
    THEN LET s1 == Evaluate(s, s.numExamples >= c.minCoverage, FALSE, FALSE,
                            Fields(s.firstR, s.lastNegativeR, s.previousR,
                                   s.numExamples, TRUE, EQ, s.previousThreshold))
             numCovered == c.numExamples - s.numExamples
         IN  Evaluate(s1, U32Geq(numCovered, c.minCoverage) /\ USE_NEQ, TRUE, FALSE,
                      Fields(s.firstR, s.lastNegativeR, s.previousR, numCovered,
                             FALSE, NEQ, s.previousThreshold))
    ELSE s

\* findRefinement, lines 220-379: all examples with feature values >= 0
PositivePhase(c, s) ==
    LET firstR == Len(c.elements) - 1
        s0 == [s EXCEPT !.previousThresholdNegative = s.previousThreshold,
                        !.previousRNegative = s.previousR,
                        !.accumulatedNumExamplesNegative = s.accumulatedNumExamples,
                        !.numExamples = 0,
                        !.firstR = firstR]
        s1 == PositiveFirst(c, s0, firstR)
        s2 == [s1 EXCEPT !.accumulatedNumExamples = s1.numExamples]
    IN  PositiveLast(c, IF s2.numExamples > 0
                        THEN PositiveRest(c, s2, s2.r - 1)
                        ELSE s2)

\* findRefinement, lines 381-452: the conditions that separate the examples with
\* sparse feature values from the ones that have been iterated
SparsePhase(c, s) ==
    LET totalAccumulatedNumExamples ==
            s.accumulatedNumExamplesNegative + s.accumulatedNumExamples
    IN  IF totalAccumulatedNumExamples > 0 /\ totalAccumulatedNumExamples < c.numExamples
        THEN LET s1 == IF c.nominal
                       THEN [resetSubset(c, s) EXCEPT !.firstR = Len(c.elements) - 1]
                       ELSE s
                 iterated == IF c.nominal THEN totalAccumulatedNumExamples
                             ELSE s.accumulatedNumExamples
                 s2 == Evaluate(s1, iterated >= c.minCoverage /\ (~c.nominal \/ USE_NEQ),
                                FALSE, c.nominal,
                                IF c.nominal
                                THEN Fields(s1.firstR, -1, -1, iterated, TRUE, NEQ, 0)
                                ELSE Fields(s1.firstR, s.lastNegativeR, s.previousR,
                                            iterated, TRUE, GR,
                                            Half(s.previousThreshold)))
                 numCovered == c.numExamples - iterated
             IN  Evaluate(s2, /\ U32Geq(numCovered, c.minCoverage)
                              /\ (c.nominal \/ USE_LEQ),
                          TRUE, c.nominal,
                          IF c.nominal
                          THEN Fields(s1.firstR, -1, -1, numCovered, FALSE, EQ, 0)
                          ELSE Fields(s1.firstR, s.lastNegativeR, s.previousR,
                                      numCovered, FALSE, LEQ,
                                      Half(s.previousThreshold)))
        ELSE s

\* findRefinement, lines 454-519: the conditions of a numerical feature that
\* separate the examples with feature values < 0 from the remaining ones
BridgePhase(c, s) ==
    LET totalAccumulatedNumExamples ==
            s.accumulatedNumExamplesNegative + s.accumulatedNumExamples
        threshold == IF totalAccumulatedNumExamples < c.numExamples
                     THEN Half(s.previousThresholdNegative)
                     ELSE arithmeticMean(s.previousThresholdNegative,
                                         s.previousThreshold)
    IN  IF /\ ~c.nominal
           /\ s.accumulatedNumExamplesNegative > 0
           /\ s.accumulatedNumExamplesNegative < c.numExamples
        THEN LET s1 == Evaluate(s, /\ s.accumulatedNumExamplesNegative >= c.minCoverage
                                   /\ USE_LEQ,
                                FALSE, TRUE,
                                Fields(0, s.lastNegativeR + 1, s.previousRNegative,
                                       s.accumulatedNumExamplesNegative, TRUE, LEQ,
                                       threshold))
                 numCovered == c.numExamples - s.accumulatedNumExamplesNegative
             IN  Evaluate(s1, U32Geq(numCovered, c.minCoverage), TRUE, TRUE,
                          Fields(0, s.lastNegativeR + 1, s.previousRNegative,
                                 numCovered, FALSE, GR, threshold))
        ELSE s

\* StatisticsSubset::addToMissing for every missing index (findRefinement, 37-41)
RECURSIVE AddAllToMissing(_, _, _)
AddAllToMissing(c, s, indices) ==
    IF indices = {} THEN s
    ELSE LET i == CHOOSE k \in indices : TRUE
         IN  AddAllToMissing(c, addToMissing(c, s, i), indices \ {i})

\* ExactRuleRefinement::findRefinement; the result is the refinement that
\* pollRefinement hands out
findRefinement(c, currentHead) ==
    LET s0 == AddAllToMissing(c, NewSubset(c, currentHead), c.missing)
        s1 == BridgePhase(c, SparsePhase(c, PositivePhase(c, NegativePhase(c, s0))))
    IN  [s1.refinement EXCEPT !.head = s1.headPtr]

----------------------------------------------------------------------------
(* The state of a training run *)

VARIABLES
    coverageCount,      \* LabelWiseStatistics::coverageCountVector_
    prediction,         \* LabelWiseStatistics::predictionVector_
    totalPrediction,    \* LabelWiseStatistics::totalPredictionVector_
    cache,              \* ExactThresholds::cache_: feature -> entry
    weights,            \* ThresholdsSubset::weights_
    numCoveredExamples, \* ThresholdsSubset::numCoveredExamples_
    coverageMask,       \* ThresholdsSubset::coverageMask_
    numModifications,   \* ThresholdsSubset::numModifications_
    cacheFiltered,      \* ThresholdsSubset::cacheFiltered_: feature -> entry
    conditions,         \* induceRule: the conditions of the rule that is grown
    bestRefinement,     \* induceRule: *bestRefinementPtr
    bestHead,           \* induceRule: *bestHead, or NoHead
    foundRefinement,    \* induceRule: foundRefinement
    sampledFeatureIndices, \* induceRule: the feature indices of this iteration
    ruleRefinements,    \* induceRule: feature -> the state of its IRuleRefinement
    numRules,           \* induceRules: numRules
    numUsedRules,       \* induceRules: numUsedRules
    currentQuality,     \* induceRules: currentQuality
    stoppingCriterionResult, \* induceRules: stoppingCriterionResult
    model,              \* the model builder: the rules added and the build argument
    visited,            \* the vectors handed to the two prediction visitors
    criterionResults,   \* the results of the criteria in the last test (observation)
    firstStoreStop,     \* the numRules of the first STORE_STOP observed, or -1
    completionOrder,    \* the features in the order their tasks completed
    sequentialRefinements, \* the refinements a sequential search would find
    commitCoverage,     \* example -> number of committed rules whose mask covered it
    pc                  \* the position of the driver

\* The calls of functions that are examined on their own, apart from a training run
VARIABLES
    split,              \* a call of adjustSplit: its arguments, and the positions that
                        \* the call and a second call with the result have returned
    labelMatrix         \* a construction of a CContiguousLabelMatrix: its arguments,
                        \* the vectors of the matrix and the elements that were written

callVars == <<split, labelMatrix>>

statisticsVars == <<coverageCount, prediction, totalPrediction>>

subsetVars == <<weights, numCoveredExamples, coverageMask, numModifications,
                cacheFiltered>>

ruleVars == <<conditions, bestRefinement, bestHead, foundRefinement,
              sampledFeatureIndices, ruleRefinements>>

driverVars == <<numRules, numUsedRules, currentQuality, stoppingCriterionResult,
                model, visited>>

observationVars == <<criterionResults, firstStoreStop, completionOrder,
                     sequentialRefinements, commitCoverage>>

trainingVars == <<inputVars, statisticsVars, cache, subsetVars, ruleVars, driverVars,
                  observationVars, pc>>

vars == <<trainingVars, callVars>>

----------------------------------------------------------------------------
(* The coverage mask *)

\* CoverageMask::CoverageMask
NewCoverageMask == [array |-> [i \in ExampleIndices |-> 0], target |-> 0]

\* CoverageMask::isCovered
isCovered(mask, i) == mask.array[i] = mask.target

\* `coverageMaskIterator[index] = numConditions` for every index of a set
MarkAll(mask, indices, numConditions) ==
    [mask EXCEPT !.array = [i \in ExampleIndices |->
                               IF i \in indices THEN numConditions ELSE @[i]]]

----------------------------------------------------------------------------
(* The statistics *)

\* The number of examples of a set that belong to a time slot and that no rule
\* covers yet: the examples for which updateCoveredStatistic changes a counter
NumUpdated(indices, t, counts) ==
    Cardinality({i \in indices : timeSlots[i] = t /\ counts[i] = 0})

\* LabelWiseStatistics::updateCoveredStatistic for every index of a set
updateCoveredStatistic(total, indices, remove, counts) ==
    [t \in DOMAIN total |->
        IF remove THEN total[t] - NumUpdated(indices, t, counts)
        ELSE total[t] + NumUpdated(indices, t, counts)]

\* CContiguousLabelMatrix::indices_: the index of the first example of every time
\* slot, followed by the number of examples
indices ==
    [t \in 0..Cardinality(TimeSlotIndices) |->
        IF t \in TimeSlotIndices
        THEN CHOOSE i \in SlotExamples(t) : \A k \in SlotExamples(t) : i <= k
        ELSE numRows]

\* updatePredictions with a prediction that adds up the coverage counts of a time
\* slot instead of counting the examples that are covered by at least one rule
updatePredictionsAddingCounts(counts) ==
    [t \in TimeSlotIndices |-> SumOver(counts, indices[t]..(indices[t + 1] - 1))]

\* LabelWiseStatistics::updatePredictions
updatePredictions(counts) ==
    [t \in TimeSlotIndices |->
        Cardinality({j \in indices[t]..(indices[t + 1] - 1) : counts[j] > 0})]

\* updateSampledStatisticsInternally: resetSampledStatistics, then
\* addSampledStatistic for every example with a weight other than zero
updateSampledStatistics(w) ==
    updateCoveredStatistic(prediction, {i \in ExampleIndices : w[i] # 0}, FALSE,
                           coverageCount)

\* IWeightVector::hasZeroWeights
hasZeroWeights(w) == \E i \in DOMAIN w : w[i] = 0

\* IWeightVector::getNumNonZeroWeights
getNumNonZeroWeights(w) == Cardinality({i \in DOMAIN w : w[i] # 0})

----------------------------------------------------------------------------
(* The thresholds subset (ExactThresholds::ThresholdsSubset) *)

\* FilteredCacheEntry::FilteredCacheEntry; `present` tells whether the map holds
\* the entry, `hasVector` whether vectorPtr is not null
NoFilteredEntry ==
    [present |-> FALSE, hasVector |-> FALSE, elements |-> <<>>, missing |-> {},
     numConditions |-> 0]

\* An entry of ExactThresholds::cache_; `installed` tells whether the pointer
\* refers to a (fetched and sorted) feature vector
NoCacheEntry == [present |-> FALSE, installed |-> FALSE]

\* The indices of the elements of a vector
IndicesOf(elements) == {elements[k].index : k \in DOMAIN elements}

\* The first n elements of an array (DenseVector::setNumElements)
Truncate(elements, n) == [k \in 1..(IF n < Len(elements) THEN n ELSE Len(elements)) |->
                             elements[k]]

\* The array dst after `dst[i + k] = src[k]` for every element of src
WriteAt(dst, i, src) ==
    [k \in 1..Len(dst) |-> IF k > i /\ k <= i + Len(src) THEN src[k - i] ELSE dst[k]]

\* A newly allocated array of n elements: every element holds what the memory
\* held before
NewArray(n, uninitialised) == [k \in 1..n |-> uninitialised]

\* The steps r = start + i * direction of adjustSplit, from step i on
RECURSIVE AdjustFrom(_, _, _, _, _, _, _)
AdjustFrom(elements, start, direction, numSteps, threshold, i, adjustedPosition) ==
    IF i >= numSteps THEN adjustedPosition
    ELSE LET r == start + (i * direction)
             featureValue == elements[r + 1].value
             adjust == IF direction = 1 THEN featureValue <= threshold
                       ELSE featureValue > threshold
         IN  IF adjust
             THEN AdjustFrom(elements, start, direction, numSteps, threshold, i + 1, r)
             ELSE adjustedPosition

\* An adjustment that moves the position up to conditionPrevious, whatever the values
\* of the elements are
adjustSplitOfAllElements(elements, conditionEnd, conditionPrevious, threshold) ==
    LET ascending == conditionEnd < conditionPrevious
        direction == IF ascending THEN 1 ELSE -1
        start == conditionEnd + direction
        numSteps == Abs(start - conditionPrevious)
    IN  IF numSteps = 0 THEN conditionEnd ELSE conditionPrevious - direction

\* An adjustment that moves the position by one element at most
adjustSplitByOne(elements, conditionEnd, conditionPrevious, threshold) ==
    LET ascending == conditionEnd < conditionPrevious
        direction == IF ascending THEN 1 ELSE -1
        start == conditionEnd + direction
        numSteps == IF Abs(start - conditionPrevious) > 1
                    THEN 1 ELSE Abs(start - conditionPrevious)
    IN  AdjustFrom(elements, start, direction, numSteps, threshold, 0, conditionEnd)

\* adjustSplit
adjustSplit(elements, conditionEnd, conditionPrevious, threshold) ==
    LET ascending == conditionEnd < conditionPrevious
        direction == IF ascending THEN 1 ELSE -1
        start == conditionEnd + direction
        numSteps == Abs(start - conditionPrevious)
    IN  AdjustFrom(elements, start, direction, numSteps, threshold, 0, conditionEnd)

\* filterCurrentVector: the new cache entry, coverage mask and totalPrediction
filterCurrentVector(vector, cacheEntry, conditionStart, conditionEnd, conditionComparator, covered, numConditions, mask, total, committed, counts, uninitialised) ==
    LET numTotalElements == Len(vector.elements)
        distance == Abs(conditionStart - conditionEnd)
        numElements == IF covered THEN distance
                       ELSE (IF numTotalElements > distance
                             THEN numTotalElements - distance ELSE 0)
        filtered == IF cacheEntry.hasVector THEN cacheEntry.elements
                    ELSE NewArray(numElements, uninitialised)
        descending == conditionEnd < conditionStart
        start == IF descending THEN conditionEnd + 1 ELSE conditionStart
        end == IF descending THEN conditionStart + 1 ELSE conditionEnd
        range == IndicesOf(SubVector(vector.elements, start, end))
        below == SubVector(vector.elements, 0, start)
        above == SubVector(vector.elements, end, numTotalElements)
        retainedNeq == IF conditionComparator # NEQ THEN filtered
                       ELSE (IF descending THEN WriteAt(filtered, start, above)
                             ELSE WriteAt(filtered, 0, below))
        retained == IF descending THEN WriteAt(retainedNeq, 0, below)
                    ELSE WriteAt(retainedNeq, start, above)
        newElements == IF covered
                       THEN WriteAt(filtered, 0, SubVector(vector.elements, start, end))
                       ELSE retained
    IN  [entry |-> [present |-> TRUE, hasVector |-> TRUE,
                    elements |-> Truncate(newElements, numElements),
                    missing |-> IF cacheEntry.hasVector THEN cacheEntry.missing ELSE {},
                    numConditions |-> numConditions],
         mask  |-> IF covered
                   THEN [MarkAll(mask, range, numConditions) EXCEPT
                            !.target = numConditions]
                   ELSE MarkAll(mask, range \cup vector.missing, numConditions),
         total |-> IF covered
                   THEN updateCoveredStatistic(committed, range, FALSE, counts)
                   ELSE updateCoveredStatistic(total, range \cup vector.missing, TRUE,
                                               counts)]

\* filterAnyVector: the new cache entry.  If the entry holds a vector, that vector
\* is the one that is filtered, and its missing indices are cleared before they are
\* iterated.
filterAnyVector(vector, cacheEntry, numConditions, mask) ==
    [present |-> TRUE, hasVector |-> TRUE,
     elements |-> SelectSeq(vector.elements, LAMBDA e : isCovered(mask, e.index)),
     missing |-> IF cacheEntry.hasVector THEN {}
                 ELSE {i \in vector.missing : isCovered(mask, i)},
     numConditions |-> numConditions]

\* A callback that fetches, sorts and installs the vectors of all features at once
InstallEveryFeatureVector(featureIndex) ==
    [j \in FeatureIndices |-> [cache[j] EXCEPT !.installed = TRUE]]

\* ThresholdsSubset::Callback::get, lines 315-325: the cache after the callback
\* has fetched, sorted and installed the vector of the feature, if there is none
InstallFeatureVector(featureIndex) ==
    IF cacheFiltered[featureIndex].hasVector \/ cache[featureIndex].installed
    THEN cache
    ELSE [cache EXCEPT ![featureIndex].installed = TRUE]

\* ThresholdsSubset::Callback::get: the feature vector handed to findRefinement and
\* the two caches afterwards
CallbackGet(featureIndex) ==
    LET cacheEntry == cacheFiltered[featureIndex]
        featureVector == IF cacheEntry.hasVector
                         THEN [elements |-> cacheEntry.elements,
                               missing |-> cacheEntry.missing]
                         ELSE FetchFeatureVector(featureIndex)
        newEntry == IF numModifications > cacheEntry.numConditions
                    THEN filterAnyVector(featureVector, cacheEntry, numModifications,
                                         coverageMask)
                    ELSE cacheEntry
    IN  [vector |-> IF numModifications > cacheEntry.numConditions
                    THEN [elements |-> newEntry.elements, missing |-> newEntry.missing]
                    ELSE featureVector,
         cache |-> InstallFeatureVector(featureIndex),
         entry |-> newEntry]

\* The vector that filterThresholds filters: the one of the filtered cache, if any,
\* and the one of the cache otherwise
CurrentVector(featureIndex) ==
    IF cacheFiltered[featureIndex].hasVector
    THEN [elements |-> cacheFiltered[featureIndex].elements,
          missing |-> cacheFiltered[featureIndex].missing]
    ELSE FetchFeatureVector(featureIndex)

\* The value of refinement.end after the adjustment of filterThresholds
AdjustedEnd(refinement) ==
    IF hasZeroWeights(weights) /\ Abs(refinement.previous - refinement.end) > 1
    THEN adjustSplit(CurrentVector(refinement.featureIndex).elements, refinement.end,
                     refinement.previous, refinement.threshold)
    ELSE refinement.end

\* ThresholdsSubset::filterThresholds(Refinement&): the result of filterCurrentVector
filterThresholds(refinement, uninitialised) ==
    filterCurrentVector(CurrentVector(refinement.featureIndex),
                        cacheFiltered[refinement.featureIndex],
                        refinement.start, AdjustedEnd(refinement), refinement.comparator,
                        refinement.covered, numModifications + 1, coverageMask,
                        totalPrediction, prediction, coverageCount, uninitialised)

\* applyPrediction with coverage counts that tell whether the rule that has been
\* committed last covers an example, instead of counting the rules that cover it
applyPredictionOfLastRule(mask, counts) ==
    [i \in ExampleIndices |-> IF isCovered(mask, i) THEN 1 ELSE 0]

\* ThresholdsSubset::applyPrediction: the coverage counts afterwards
applyPrediction(mask, counts) ==
    [i \in ExampleIndices |-> IF isCovered(mask, i) THEN counts[i] + 1 ELSE counts[i]]

----------------------------------------------------------------------------
(* The conditions of a rule, evaluated against the raw feature values *)

\* ConditionList::addCondition: the condition of a refinement
ConditionOf(refinement, end) ==
    [featureIndex |-> refinement.featureIndex, comparator |-> refinement.comparator,
     threshold |-> refinement.threshold, numCovered |-> refinement.numCovered,
     start |-> refinement.start, end |-> end, covered |-> refinement.covered]

\* Does the raw feature value of an example satisfy a condition?  The value of a
\* sparse example is 0; a missing value satisfies no condition.
Satisfies(i, condition) ==
    LET v == featureValues[condition.featureIndex][i]
    IN  /\ i \notin missingValues[condition.featureIndex]
        /\ CASE condition.comparator = LEQ -> v <= condition.threshold
             [] condition.comparator = GR  -> v > condition.threshold
             [] condition.comparator = EQ  -> v = condition.threshold
             [] OTHER                      -> v # condition.threshold

\* The examples that satisfy the first n conditions of a body
RawCovered(body, n) ==
    {i \in ExampleIndices : \A k \in 1..n : Satisfies(i, body[k])}

----------------------------------------------------------------------------
(* The stopping criteria *)

CONTINUE == "CONTINUE"

STORE_STOP == "STORE_STOP"

FORCE_STOP == "FORCE_STOP"

Actions == {CONTINUE, STORE_STOP, FORCE_STOP}

\* A loop over the stopping criteria that breaks out of the switch statement on
\* FORCE_STOP, as it does on STORE_STOP, instead of returning
RECURSIVE TestFromWithoutReturn(_, _, _)
TestFromWithoutReturn(results, k, result) ==
    IF k > Len(results) THEN result
    ELSE IF results[k].action \in {FORCE_STOP, STORE_STOP}
         THEN TestFromWithoutReturn(results, k + 1, results[k])
    ELSE TestFromWithoutReturn(results, k + 1, result)

\* The loop of testStoppingCriteria from the k-th criterion on
RECURSIVE TestFrom(_, _, _)
TestFrom(results, k, result) ==
    IF k > Len(results) THEN result
    ELSE IF results[k].action = FORCE_STOP THEN results[k]
    ELSE IF results[k].action = STORE_STOP THEN TestFrom(results, k + 1, results[k])
    ELSE TestFrom(results, k + 1, result)

\* testStoppingCriteria; the field numRules of a CONTINUE result is never read
testStoppingCriteria(results) ==
    TestFrom(results, 1, [action |-> CONTINUE, numRules |-> 0])

----------------------------------------------------------------------------
(* The training runs that are explored.  A dataset has four examples in three  *)
(* time slots, so that one time slot holds two examples, and two features: the *)
(* values of the first one ascend with the index of the example, the second    *)
(* one holds the same values in the opposite order.                            *)

\* The feature values of the datasets, in half-units
FeatureValueDomain == {-8, -2, 0, 4, 12}

\* The assignments of the examples to the time slots: the examples of a time slot
\* are adjacent, and no time slot is empty
TimeSlotLayouts ==
    {f \in [0..3 -> 0..2] : /\ f[0] = 0
                            /\ f[3] = 2
                            /\ \A i \in 0..2 : f[i + 1] \in {f[i], f[i] + 1}}

\* The columns of the first feature
Columns ==
    {c \in [0..3 -> FeatureValueDomain] : \A i \in 0..2 : c[i] <= c[i + 1]}

\* The column of the second feature
Reversed(column) == [i \in DOMAIN column |-> column[3 - i]]

\* The ground-truth vectors
GroundTruths == [0..2 -> 0..MaxGroundTruth]

\* The ground-truth vectors of the runs that explore the sampling and the driver
FewGroundTruths == {g \in GroundTruths : g[0] = 0}

\* The content of a vector that has been allocated, but not initialised
UninitialisedVectors == {[t \in TimeSlotIndices |-> g] : g \in {0, 1}}

\* The content of an element of a feature vector that has been allocated, but not
\* initialised
UninitialisedElements == {[value |-> 0, index |-> 0], [value |-> 12, index |-> 3]}

\* The orders in which IFeatureSubSampling::subSample may hand out the features
FeatureOrders ==
    IF Cardinality(FeatureIndices) = 1 THEN {<<0>>}
    ELSE IF featureSampling THEN {<<0, 1>>, <<1, 0>>} ELSE {<<0, 1>>}

\* The time slots of the runs that explore one layout only
MiddleLayout == [i \in 0..3 |-> IF i = 0 THEN 0 ELSE IF i = 3 THEN 2 ELSE 1]

\* The columns with the smallest value at the first example
LowColumns == {c \in Columns : c[0] = -8}

\* The columns with the smallest and the largest value at the ends
WideColumns == {c \in Columns : c[0] = -8 /\ c[3] = 12}

\* Runs without stopping criteria and numerical features
NumericalRuns ==
    [timeSlots : {MiddleLayout}, groundTruth : GroundTruths, column : Columns,
     missing : {{}}, nominal : {FALSE}, minCoverage : {1}, maxConditions : {2},
     hasDefaultRule : {FALSE}, instanceSampling : {FALSE}, featureSampling : {FALSE},
     numCriteria : {0}]

\* Runs with nominal features and an unlimited number of conditions
NominalRuns ==
    [timeSlots : {MiddleLayout}, groundTruth : GroundTruths, column : Columns,
     missing : {{}}, nominal : {TRUE}, minCoverage : {1}, maxConditions : {-1},
     hasDefaultRule : {FALSE}, instanceSampling : {FALSE}, featureSampling : {FALSE},
     numCriteria : {0}]

\* Runs where the value of the first feature is missing for an example
MissingRuns ==
    [timeSlots : {MiddleLayout}, groundTruth : GroundTruths, column : LowColumns,
     missing : {{1}}, nominal : BOOLEAN, minCoverage : {0}, maxConditions : {2},
     hasDefaultRule : {FALSE}, instanceSampling : {FALSE}, featureSampling : {FALSE},
     numCriteria : {0}]

\* Runs where the examples are sampled anew for every rule
InstanceSamplingRuns ==
    [timeSlots : {MiddleLayout}, groundTruth : FewGroundTruths, column : WideColumns,
     missing : {{}}, nominal : BOOLEAN, minCoverage : {1}, maxConditions : {2},
     hasDefaultRule : {FALSE}, instanceSampling : {TRUE}, featureSampling : {FALSE},
     numCriteria : {0}]

\* Runs where the features are sampled anew for every refinement, for every layout
FeatureSamplingRuns ==
    [timeSlots : TimeSlotLayouts, groundTruth : FewGroundTruths, column : WideColumns,
     missing : {{}}, nominal : {FALSE}, minCoverage : {1}, maxConditions : {2},
     hasDefaultRule : {FALSE}, instanceSampling : {FALSE}, featureSampling : {TRUE},
     numCriteria : {0}]

\* Runs with stopping criteria, with and without a default rule
DriverRuns ==
    [timeSlots : {MiddleLayout}, groundTruth : FewGroundTruths, column : WideColumns,
     missing : {{}}, nominal : {FALSE}, minCoverage : {1}, maxConditions : {1},
     hasDefaultRule : BOOLEAN, instanceSampling : {FALSE}, featureSampling : {FALSE},
     numCriteria : 1..MaxCriteria]

\* Runs with a minimum support of 0 and rules of a single condition
SingleConditionRuns ==
    [timeSlots : {MiddleLayout}, groundTruth : FewGroundTruths, column : LowColumns,
     missing : {{}}, nominal : BOOLEAN, minCoverage : {0}, maxConditions : {1},
     hasDefaultRule : {FALSE}, instanceSampling : {FALSE}, featureSampling : {FALSE},
     numCriteria : {0}]

\* Runs without stopping criteria and with an unlimited number of conditions
UnlimitedRuns ==
    [timeSlots : {MiddleLayout}, groundTruth : FewGroundTruths, column : LowColumns,
     missing : {{}}, nominal : BOOLEAN, minCoverage : {0, 1}, maxConditions : {-1},
     hasDefaultRule : {FALSE}, instanceSampling : BOOLEAN, featureSampling : {FALSE},
     numCriteria : {0}]

Runs ==
    NumericalRuns \cup NominalRuns \cup MissingRuns \cup InstanceSamplingRuns
        \cup FeatureSamplingRuns \cup DriverRuns \cup SingleConditionRuns

\* A dataset with a single feature and the configuration it is learned with, without
\* default rule, sampling and stopping criteria
Scenario(timeSlotsOfExamples, labels, column, isNominal, coverage, numConditions) ==
    [numRows |-> Len(timeSlotsOfExamples),
     timeSlots |-> [i \in 0..(Len(timeSlotsOfExamples) - 1) |-> timeSlotsOfExamples[i + 1]],
     groundTruth |-> [t \in 0..(Len(labels) - 1) |-> labels[t + 1]],
     featureValues |-> [j \in {0} |-> [i \in 0..(Len(column) - 1) |-> column[i + 1]]],
     missingValues |-> [j \in {0} |-> {}],
     nominalMask |-> [j \in {0} |-> isNominal],
     minCoverage |-> coverage, maxConditions |-> numConditions,
     hasDefaultRule |-> FALSE, instanceSampling |-> FALSE, featureSampling |-> FALSE,
     numCriteria |-> 0]

\* Six examples in three time slots, a numerical feature with the values 1, 1, 0, 0,
\* 1, 1, a minimum support of 0.1 and at most one condition
PerfectNumericalRule ==
    Scenario(<<0, 0, 1, 1, 2, 2>>, <<2, 0, 2>>, <<2, 2, 0, 0, 2, 2>>, FALSE, 0, 1)

\* Four examples in two time slots and a nominal feature with the values 0, 1, 1, 0
NominalSplit ==
    {Scenario(<<0, 0, 1, 1>>, <<1, 1>>, <<0, 2, 2, 0>>, TRUE, coverage, numConditions) :
        coverage \in {0, 1}, numConditions \in {1, 2}}

\* Four examples in two time slots and a numerical feature with the values 0, 0, 3, 5
SparseZeroSeparatesSlots ==
    {Scenario(<<0, 0, 1, 1>>, <<0, 2>>, <<0, 0, 6, 10>>, FALSE, coverage, numConditions) :
        coverage \in {0, 1}, numConditions \in {1, 2}}

\* Four examples in two time slots and a feature with the value 1 for the examples
\* 0, 1 and 3, and with a missing value for example 2
MissingValuesIgnored ==
    {[Scenario(<<0, 0, 1, 1>>, labels, <<2, 2, 0, 2>>, isNominal, coverage, 1)
         EXCEPT !.missingValues = [j \in {0} |-> {2}]] :
        labels \in {<<0, 1>>, <<1, 0>>, <<1, 2>>}, isNominal \in BOOLEAN,
        coverage \in {0, 1}}

Scenarios ==
    {PerfectNumericalRule} \cup NominalSplit \cup SparseZeroSeparatesSlots
        \cup MissingValuesIgnored

\* The state of the IRuleRefinement of a feature
NoRuleRefinement == [state |-> "none", numExamples |-> 0, refinement |-> EmptyRefinement]

\* No construction of a label matrix
NoLabelMatrix ==
    [numRows |-> 0, array |-> <<>>, calls |-> 0, timeSlots_ |-> <<>>, indices_ |-> <<>>,
     values_ |-> <<>>, numTimeSlots |-> 0, written |-> {}]

\* No call of adjustSplit
NoSplit ==
    [elements |-> <<>>, conditionEnd |-> 0, conditionPrevious |-> 0, threshold |-> 0,
     calls |-> 0, adjusted |-> 0, adjustedAgain |-> 0]

\* The inputs of a training run with two features
InputsOfRun(run) ==
    /\ numRows = 4
    /\ timeSlots = run.timeSlots
    /\ groundTruth = run.groundTruth
    /\ featureValues = [j \in 0..1 |-> IF j = 0 THEN run.column
                                        ELSE Reversed(run.column)]
    /\ missingValues = [j \in 0..1 |-> IF j = 0 THEN run.missing ELSE {}]
    /\ nominalMask = [j \in 0..1 |-> run.nominal]
    /\ minCoverage = run.minCoverage
    /\ maxConditions = run.maxConditions
    /\ hasDefaultRule = run.hasDefaultRule
    /\ instanceSampling = run.instanceSampling
    /\ featureSampling = run.featureSampling
    /\ numCriteria = run.numCriteria

\* The state of the objects of a training run on entry to induceRules
InitOfObjects ==
    /\ coverageCount = [i \in ExampleIndices |-> 0]
    /\ prediction = [t \in TimeSlotIndices |-> 0]
    /\ totalPrediction \in UninitialisedVectors
    /\ cache = [j \in FeatureIndices |-> NoCacheEntry]
    /\ weights = [i \in ExampleIndices |-> 1]
    /\ numCoveredExamples = 0
    /\ coverageMask = NewCoverageMask
    /\ numModifications = 0
    /\ cacheFiltered = [j \in FeatureIndices |-> NoFilteredEntry]
    /\ conditions = <<>>
    /\ bestRefinement = EmptyRefinement
    /\ bestHead = NoHead
    /\ foundRefinement = FALSE
    /\ sampledFeatureIndices = <<>>
    /\ ruleRefinements = [j \in FeatureIndices |-> NoRuleRefinement]
    /\ numRules = 0
    /\ numUsedRules = 0
    /\ currentQuality = ZeroScore
    /\ stoppingCriterionResult = [action |-> CONTINUE, numRules |-> 0]
    /\ model = [rules |-> <<>>, numUsedRules |-> 0, built |-> FALSE]
    /\ visited = [predictions |-> <<>>, groundTruth |-> <<>>]
    /\ criterionResults = <<>>
    /\ firstStoreStop = -1
    /\ completionOrder = <<>>
    /\ sequentialRefinements = [j \in FeatureIndices |-> EmptyRefinement]
    /\ commitCoverage = [i \in ExampleIndices |-> 0]
    /\ pc = "start"

\* The state of a training run on entry to induceRules
InitOfTraining ==
    /\ \/ \E run \in Runs : InputsOfRun(run)
       \/ \E scenario \in Scenarios :
             /\ numRows = scenario.numRows
             /\ timeSlots = scenario.timeSlots
             /\ groundTruth = scenario.groundTruth
             /\ featureValues = scenario.featureValues
             /\ missingValues = scenario.missingValues
             /\ nominalMask = scenario.nominalMask
             /\ minCoverage = scenario.minCoverage
             /\ maxConditions = scenario.maxConditions
             /\ hasDefaultRule = scenario.hasDefaultRule
             /\ instanceSampling = scenario.instanceSampling
             /\ featureSampling = scenario.featureSampling
             /\ numCriteria = scenario.numCriteria
    /\ InitOfObjects

Init ==
    /\ split = NoSplit
    /\ labelMatrix = NoLabelMatrix
    /\ InitOfTraining

----------------------------------------------------------------------------
(* The training run *)

\* The weight vectors that IInstanceSubSampling::subSample may hand out: all
\* examples with weight 1 without sampling, all but one with sampling
WeightVectors ==
    IF instanceSampling
    THEN {[i \in ExampleIndices |-> IF i = z THEN 0 ELSE 1] : z \in ExampleIndices}
    ELSE {[i \in ExampleIndices |-> 1]}

\* The context that the callback of a feature hands to findRefinement
SearchContext(featureIndex) ==
    LET vector == CallbackGet(featureIndex).vector
    IN  [elements |-> vector.elements, missing |-> vector.missing,
         weights |-> weights, coverageCount |-> coverageCount,
         prediction |-> prediction, totalPrediction |-> totalPrediction,
         numExamples |-> ruleRefinements[featureIndex].numExamples,
         nominal |-> nominalMask[featureIndex], featureIndex |-> featureIndex,
         minCoverage |-> minCoverage]

\* induceRule, lines 70-79: the best refinement among the ones that have been
\* found, polled in the given order of the features, and foundRefinement
RECURSIVE PickBest(_, _, _)
PickBest(order, refinements, picked) ==
    IF order = <<>> THEN picked
    ELSE LET refinement == refinements[Head(order)]
         IN  IF isBetterThan(refinement, picked.best)
             THEN PickBest(Tail(order), refinements,
                           [best |-> refinement, found |-> TRUE])
             ELSE PickBest(Tail(order), refinements, picked)

\* A reduction that polls the refinements in the order in which the tasks of the
\* parallel loop have completed
PollOrderOfCompletion == completionOrder

\* The order in which induceRule polls the refinements
PollOrder == sampledFeatureIndices

\* induceRules, lines 60-81
InduceDefaultRule ==
    /\ pc = "start"
    /\ numRules' = IF hasDefaultRule THEN 1 ELSE 0
    /\ numUsedRules' = 0
    /\ currentQuality' = ZeroScore
    /\ pc' = "test"
    /\ UNCHANGED <<callVars, inputVars, statisticsVars, cache, subsetVars, ruleVars,
                   stoppingCriterionResult, model, visited, observationVars>>

\* induceRules, lines 83-88: the stopping criteria are tested; each criterion
\* answers with an action that carries the current number of rules
TestStoppingCriteria ==
    /\ pc = "test"
    /\ \E actions \in [1..numCriteria -> Actions] :
          LET results == [k \in 1..numCriteria |->
                             [action |-> actions[k], numRules |-> numRules]]
              result == testStoppingCriteria(results)
          IN  /\ criterionResults' = results
              /\ stoppingCriterionResult' = result
              /\ numUsedRules' = IF result.action = STORE_STOP /\ numUsedRules = 0
                                 THEN result.numRules ELSE numUsedRules
              /\ firstStoreStop' = IF result.action = STORE_STOP /\ firstStoreStop = -1
                                   THEN result.numRules ELSE firstStoreStop
              /\ pc' = IF result.action = FORCE_STOP THEN "finish" ELSE "induce"
    /\ UNCHANGED <<callVars, inputVars, statisticsVars, cache, subsetVars, ruleVars, numRules,
                   currentQuality, model, visited, completionOrder,
                   sequentialRefinements, commitCoverage>>

\* induceRules, line 90, and induceRule, lines 22-41
InduceRuleBegin ==
    /\ pc = "induce"
    /\ \E w \in WeightVectors :
          /\ weights' = w
          /\ totalPrediction' = updateSampledStatistics(w)
          /\ numCoveredExamples' = getNumNonZeroWeights(w)
    /\ coverageMask' = NewCoverageMask
    /\ numModifications' = 0
    /\ cacheFiltered' = [j \in FeatureIndices |-> NoFilteredEntry]
    /\ conditions' = <<>>
    /\ bestRefinement' = EmptyRefinement
    /\ bestHead' = NoHead
    /\ foundRefinement' = TRUE
    /\ ruleRefinements' = [j \in FeatureIndices |-> NoRuleRefinement]
    /\ criterionResults' = <<>>
    /\ pc' = "loop"
    /\ UNCHANGED <<callVars, inputVars, coverageCount, prediction, cache, sampledFeatureIndices,
                   driverVars, firstStoreStop, completionOrder, sequentialRefinements,
                   commitCoverage>>

\* A refinement loop that goes on as long as the number of conditions allows
LoopConditionOfNumConditions ==
    maxConditions = -1 \/ Len(conditions) < maxConditions

\* induceRule, line 45
LoopCondition ==
    foundRefinement /\ (maxConditions = -1 \/ Len(conditions) < maxConditions)

\* induceRule, lines 45-58: the features are sampled and a rule refinement is
\* created for each of them (createExactRuleRefinement)
CreateRuleRefinements ==
    /\ pc = "loop"
    /\ LoopCondition
    /\ foundRefinement' = FALSE
    /\ sampledFeatureIndices' \in FeatureOrders
    /\ cacheFiltered' = [j \in FeatureIndices |->
                            [cacheFiltered[j] EXCEPT !.present = TRUE]]
    /\ cache' = [j \in FeatureIndices |->
                    IF cacheFiltered[j].hasVector THEN cache[j]
                    ELSE [cache[j] EXCEPT !.present = TRUE]]
    /\ ruleRefinements' = [j \in FeatureIndices |->
                              [state |-> "created", numExamples |-> numCoveredExamples,
                               refinement |-> EmptyRefinement]]
    /\ sequentialRefinements' =
           [j \in FeatureIndices |->
               findRefinement([SearchContext(j) EXCEPT !.numExamples =
                                                           numCoveredExamples],
                              bestHead)]
    /\ pc' = "parallel"
    /\ UNCHANGED <<callVars, inputVars, statisticsVars, weights, numCoveredExamples, coverageMask,
                   numModifications, conditions, bestRefinement, bestHead, driverVars,
                   criterionResults, firstStoreStop, completionOrder, commitCoverage>>

\* induceRule, lines 61-67: one iteration of the parallel loop
FindRefinementTask(j) ==
    /\ pc = "parallel"
    /\ ruleRefinements[j].state = "created"
    /\ cache' = CallbackGet(j).cache
    /\ cacheFiltered' = [cacheFiltered EXCEPT ![j] = CallbackGet(j).entry]
    /\ ruleRefinements' = [ruleRefinements EXCEPT
                              ![j].state = "done",
                              ![j].refinement = findRefinement(SearchContext(j),
                                                               bestHead)]
    /\ completionOrder' = Append(completionOrder, j)
    /\ UNCHANGED <<callVars, inputVars, statisticsVars, weights, numCoveredExamples, coverageMask,
                   numModifications, conditions, bestRefinement, bestHead,
                   foundRefinement, sampledFeatureIndices, driverVars, criterionResults,
                   firstStoreStop, sequentialRefinements, commitCoverage, pc>>

\* induceRule, lines 69-90: after the join, the best refinement is picked, and the
\* thresholds are filtered by it
PickBestRefinement ==
    /\ pc = "parallel"
    /\ \A j \in FeatureIndices : ruleRefinements[j].state = "done"
    /\ \E uninitialised \in UninitialisedElements :
          LET refinements == [j \in FeatureIndices |-> ruleRefinements[j].refinement]
              picked == PickBest(PollOrder, refinements,
                                 [best |-> bestRefinement, found |-> FALSE])
              best == picked.best
              filtered == filterThresholds(best, uninitialised)
          IN  /\ foundRefinement' = picked.found
              /\ IF picked.found
                 THEN /\ bestRefinement' = [best EXCEPT !.end = AdjustedEnd(best)]
                      /\ bestHead' = best.head
                      /\ numModifications' = numModifications + 1
                      /\ numCoveredExamples' = best.numCovered
                      /\ cacheFiltered' = [cacheFiltered EXCEPT
                                              ![best.featureIndex] = filtered.entry]
                      /\ coverageMask' = filtered.mask
                      /\ totalPrediction' = filtered.total
                      /\ conditions' = Append(conditions,
                                              ConditionOf(best, AdjustedEnd(best)))
                 ELSE UNCHANGED <<bestRefinement, bestHead, numModifications,
                                  numCoveredExamples, cacheFiltered, coverageMask,
                                  totalPrediction, conditions>>
    /\ completionOrder' = <<>>
    /\ sequentialRefinements' = [j \in FeatureIndices |-> EmptyRefinement]
    /\ pc' = "loop"
    /\ UNCHANGED <<callVars, inputVars, coverageCount, prediction, cache, weights,
                   sampledFeatureIndices, ruleRefinements, driverVars, criterionResults,
                   firstStoreStop, commitCoverage>>

\* An induceRule that returns +infinity as the quality score, if it commits no rule
FinishRuleReturningInfinity ==
    /\ pc = "loop"
    /\ ~LoopCondition
    /\ IF bestHead # NoHead /\ ScoreLess(bestHead, currentQuality)
       THEN /\ coverageCount' = applyPrediction(coverageMask, coverageCount)
            /\ prediction' = updatePredictions(coverageCount')
            /\ model' = [model EXCEPT !.rules = Append(@, [conditions |-> conditions,
                                                          head |-> bestHead])]
            /\ currentQuality' = bestHead
            /\ numRules' = numRules + 1
            /\ visited' = [visited EXCEPT !.predictions = Append(@, prediction')]
            /\ commitCoverage' = [i \in ExampleIndices |->
                                     IF isCovered(coverageMask, i)
                                     THEN commitCoverage[i] + 1 ELSE commitCoverage[i]]
            /\ pc' = "test"
       ELSE /\ pc' = "finish"
            /\ currentQuality' = InfScore
            /\ UNCHANGED <<coverageCount, prediction, model, numRules, visited,
                           commitCoverage>>
    /\ UNCHANGED <<callVars, inputVars, totalPrediction, cache, subsetVars, ruleVars, numUsedRules,
                   stoppingCriterionResult, criterionResults, firstStoreStop,
                   completionOrder, sequentialRefinements>>

\* induceRule, lines 93-110, and induceRules, lines 93-103: the rule is committed
\* if it has a head whose quality score is better than the current quality
FinishRule ==
    /\ pc = "loop"
    /\ ~LoopCondition
    /\ IF bestHead # NoHead /\ ScoreLess(bestHead, currentQuality)
       THEN /\ coverageCount' = applyPrediction(coverageMask, coverageCount)
            /\ prediction' = updatePredictions(coverageCount')
            /\ model' = [model EXCEPT !.rules = Append(@, [conditions |-> conditions,
                                                          head |-> bestHead])]
            /\ currentQuality' = bestHead
            /\ numRules' = numRules + 1
            /\ visited' = [visited EXCEPT !.predictions = Append(@, prediction')]
            /\ commitCoverage' = [i \in ExampleIndices |->
                                     IF isCovered(coverageMask, i)
                                     THEN commitCoverage[i] + 1 ELSE commitCoverage[i]]
            /\ pc' = "test"
       ELSE /\ pc' = "finish"
            /\ UNCHANGED <<coverageCount, prediction, model, currentQuality, numRules,
                           visited, commitCoverage>>
    /\ UNCHANGED <<callVars, inputVars, totalPrediction, cache, subsetVars, ruleVars, numUsedRules,
                   stoppingCriterionResult, criterionResults, firstStoreStop,
                   completionOrder, sequentialRefinements>>

\* An epilogue of induceRules that builds the model without handing the ground
\* truth to its visitor
BuildModelWithoutVisitor ==
    /\ pc = "finish"
    /\ model' = [model EXCEPT !.numUsedRules = numUsedRules, !.built = TRUE]
    /\ pc' = "done"
    /\ UNCHANGED <<callVars, inputVars, statisticsVars, cache, subsetVars, ruleVars, numRules,
                   numUsedRules, currentQuality, stoppingCriterionResult, visited,
                   observationVars>>

\* induceRules, lines 106-110: the ground truth is handed to its visitor and the
\* model is built
BuildModel ==
    /\ pc = "finish"
    /\ visited' = [visited EXCEPT !.groundTruth = Append(@, groundTruth)]
    /\ model' = [model EXCEPT !.numUsedRules = numUsedRules, !.built = TRUE]
    /\ pc' = "done"
    /\ UNCHANGED <<callVars, inputVars, statisticsVars, cache, subsetVars, ruleVars, numRules,
                   numUsedRules, currentQuality, stoppingCriterionResult,
                   observationVars>>

Next ==
    \/ InduceDefaultRule
    \/ TestStoppingCriteria
    \/ InduceRuleBegin
    \/ CreateRuleRefinements
    \/ \E j \in FeatureIndices : FindRefinementTask(j)
    \/ PickBestRefinement
    \/ FinishRule
    \/ BuildModel

Spec == Init /\ [][Next]_vars

----------------------------------------------------------------------------
(* Properties of the thresholds subset and of the rules that are induced *)

\* C1: after every filterThresholds during the growth of a rule, the coverage mask
\* marks an example as covered if and only if the raw feature values of the example
\* satisfy every condition that has been added to the rule so far.
CoverageMaskMatchesConditions ==
    numModifications > 0 =>
        \A i \in ExampleIndices :
            isCovered(coverageMask, i) <=> i \in RawCovered(conditions, Len(conditions))

\* C2: for every rule added to the model builder, the numCovered of each condition
\* is the number of examples whose raw feature values satisfy the body up to and
\* including that condition.
NumCoveredMatchesBody ==
    \A n \in DOMAIN model.rules :
        \A k \in DOMAIN model.rules[n].conditions :
            model.rules[n].conditions[k].numCovered
                = Cardinality(RawCovered(model.rules[n].conditions, k))

\* C3: whenever induceRule has committed a rule, the quality score it returned is
\* the negated absolute Pearson correlation between the prediction vector, as it
\* stands after applyPrediction, and the ground truth.
ReturnedScoreIsScoreOfPrediction ==
    Len(model.rules) > 0 =>
        ScoreEqual(currentQuality, calculateLabelWisePrediction(prediction))

----------------------------------------------------------------------------
(* Properties of the statistics *)

\* C5: whenever no rule is being grown, i.e., before the first call of induceRule
\* and between the return of induceRule and its next call, whether a rule has been
\* committed or not, totalPrediction equals prediction for every time slot.
TotalPredictionEqualsPredictionAtRest ==
    pc \notin {"loop", "parallel"} => totalPrediction = prediction

\* The step of a training run leaves the coverage counts as they are, or it is the
\* commit of a rule, which increases by one the counts of the examples that the
\* coverage mask marks as covered and leaves the other counts alone
CoverageCountStep ==
    /\ \A i \in ExampleIndices : coverageCount'[i] >= coverageCount[i]
    /\ coverageCount' # coverageCount =>
          /\ pc = "loop" /\ pc' = "test"
          /\ Len(model'.rules) = Len(model.rules) + 1
    /\ coverageCount' = commitCoverage'

\* C6: the coverage count of every example starts at 0, never decreases, is changed
\* only by applyPrediction when a rule is committed, and equals, after any number
\* of committed rules, the number of those rules whose coverage mask has covered
\* the example at the time of the commit.
CoverageCountMonotone ==
    /\ \A i \in ExampleIndices : coverageCount[i] = 0
    /\ [][CoverageCountStep]_vars

\* Two rules have been committed; some example is covered by both of them, another
\* one by exactly one of them
CoverageCountOfTwoRules ==
    /\ Len(model.rules) = 2
    /\ \E i, j \in ExampleIndices : coverageCount[i] = 2 /\ coverageCount[j] = 1

----------------------------------------------------------------------------
(* Properties of the parallel search for the best refinement *)

\* The features whose refinement, as a sequential search at the start of the
\* iteration finds it, is strictly better than the best refinement so far
ImprovingFeatures ==
    {j \in Range(sampledFeatureIndices) :
        isBetterThan(sequentialRefinements[j], bestRefinement)}

\* The improving features whose refinement has the lowest quality score
LowestScoreFeatures ==
    {j \in ImprovingFeatures :
        \A k \in ImprovingFeatures :
            ~isBetterThan(sequentialRefinements[k], sequentialRefinements[j])}

\* The position of a feature in the order of the sampled feature indices
SampledPosition(j) ==
    CHOOSE p \in DOMAIN sampledFeatureIndices : sampledFeatureIndices[p] = j

\* The first of the features with the lowest score, in the order of the sampled
\* feature indices
SelectedFeature ==
    CHOOSE j \in LowestScoreFeatures :
        \A k \in LowestScoreFeatures : SampledPosition(j) <= SampledPosition(k)

\* The step that follows the join of the parallel loop selects the refinement of
\* SelectedFeature (whose `end` filterThresholds may adjust), if there is an
\* improving feature, and none otherwise
SelectionStep ==
    (pc = "parallel" /\ pc' = "loop") =>
        /\ foundRefinement' = (ImprovingFeatures # {})
        /\ IF ImprovingFeatures # {}
           THEN /\ bestRefinement'.featureIndex = SelectedFeature
                /\ [bestRefinement' EXCEPT
                       !.end = sequentialRefinements[SelectedFeature].end]
                      = sequentialRefinements[SelectedFeature]
                /\ bestHead' = sequentialRefinements[SelectedFeature].head
           ELSE bestRefinement' = bestRefinement /\ bestHead' = bestHead

CacheStep ==
    pc = "parallel" =>
        \A j \in FeatureIndices :
            cache'[j] # cache[j] =>
                /\ ruleRefinements[j].state = "created"
                /\ ruleRefinements'[j].state = "done"
                /\ cache[j].present /\ ~cache[j].installed
                /\ cache'[j] = [cache[j] EXCEPT !.installed = TRUE]

----------------------------------------------------------------------------
(* Properties of the sequential induction of the rules *)

\* C9: the numUsedRules that is passed to IModelBuilder::build is the number of
\* rules carried by the first STORE_STOP result that the stopping criteria have
\* returned, whatever they have returned later on, and 0, if they have never
\* returned STORE_STOP.
NumUsedRulesIsFirstStoreStop ==
    model.built =>
        model.numUsedRules = (IF firstStoreStop = -1 THEN 0 ELSE firstStoreStop)

\* The actions that the stopping criteria have returned when they have been
\* tested last
TestedActions == {criterionResults[k].action : k \in DOMAIN criterionResults}

\* The result of the last test of the stopping criteria is FORCE_STOP, if any
\* criterion has returned FORCE_STOP, otherwise STORE_STOP, if any criterion has
\* returned STORE_STOP, and CONTINUE otherwise; on FORCE_STOP the loop is left
StoppingCriteriaResult ==
    criterionResults # <<>> =>
        /\ stoppingCriterionResult.action =
              (IF FORCE_STOP \in TestedActions THEN FORCE_STOP
               ELSE IF STORE_STOP \in TestedActions THEN STORE_STOP
               ELSE CONTINUE)
        /\ stoppingCriterionResult.action = FORCE_STOP => pc \in {"finish", "done"}

\* Once the loop of induceRules has been left, no rule is induced or added anymore
StoppedStep ==
    pc \in {"finish", "done"} =>
        /\ pc' \in {"finish", "done"}
        /\ model'.rules = model.rules
        /\ numRules' = numRules

\* C10: testStoppingCriteria returns FORCE_STOP if and only if at least one of the
\* criteria returns FORCE_STOP, whatever its position and whatever the other
\* criteria return; otherwise it returns STORE_STOP, if at least one criterion
\* returns STORE_STOP, and CONTINUE, if all criteria return CONTINUE; after
\* FORCE_STOP neither induceRule nor addRule is called again.
ForceStopWins == []StoppingCriteriaResult /\ [][StoppedStep]_vars

\* After a rule has been committed, the first of two criteria has returned
\* FORCE_STOP and the second one STORE_STOP, and the loop has been left
ForceStopBeforeStoreStop ==
    /\ Len(criterionResults) = 2
    /\ criterionResults[1].action = FORCE_STOP
    /\ criterionResults[2].action = STORE_STOP
    /\ Len(model.rules) > 0
    /\ pc = "done"

----------------------------------------------------------------------------
(* Properties of the rules that induceRule commits or refuses to commit *)

\* C11: a candidate head whose prediction vector, or whose ground truth, has no
\* variance over the time slots, so that its quality score is not finite, is
\* rejected: findRefinement returns no refinement with such a head, also if there
\* is no best head yet, and such a head never becomes the best head of a rule.
NonFiniteHeadRejected ==
    /\ \A j \in FeatureIndices : ruleRefinements[j].refinement.head.kind # "nan"
    /\ bestHead.kind # "nan"
    /\ \A n \in DOMAIN model.rules : model.rules[n].head.kind = "fin"

\* A step of induceRule: the commit of a rule runs applyPrediction once, adds one
\* rule with the best head, and returns the score of that head, which is strictly
\* lower than the current quality; any other step, the return of false included,
\* leaves the coverage counts, the predictions, the rules of the model builder and
\* the current quality of the driver as they are
InduceRuleStep ==
    pc \in {"induce", "loop", "parallel"} =>
        IF pc' = "test"
        THEN /\ model'.rules = Append(model.rules, [conditions |-> conditions,
                                                    head |-> bestHead])
             /\ numRules' = numRules + 1
             /\ currentQuality' = bestHead
             /\ ScoreLess(currentQuality', currentQuality)
             /\ \A i \in ExampleIndices :
                   coverageCount'[i] = coverageCount[i] + (IF isCovered(coverageMask, i)
                                                           THEN 1 ELSE 0)
        ELSE /\ model'.rules = model.rules
             /\ numRules' = numRules
             /\ currentQuality' = currentQuality
             /\ coverageCount' = coverageCount
             /\ prediction' = prediction
             /\ pc' = "finish" => bestHead = NoHead \/ ~ScoreLess(bestHead, currentQuality)

\* C12: if induceRule returns false, because no refinement has been found or the
\* score of the best head is not strictly lower than currentQuality, it returns the
\* currentQuality it has been given, adds no rule to the model builder and leaves
\* coverageCount and prediction as they were; it returns true only together with
\* exactly one applyPrediction and one addRule.
FailedInduceRuleChangesNothing == [][InduceRuleStep]_vars

\* After a rule has been committed, induceRule has grown another rule, whose
\* best head is not better than the current quality, and has returned false
SecondRuleNotBetter ==
    /\ pc = "finish"
    /\ numCriteria = 0
    /\ Len(model.rules) >= 1
    /\ bestHead # NoHead
    /\ numModifications > 0
    /\ ~ScoreLess(bestHead, currentQuality)

\* All values of all features are zero, and none is missing
AllFeaturesZero ==
    \A j \in FeatureIndices :
        /\ missingValues[j] = {}
        /\ \A i \in ExampleIndices : featureValues[j][i] = 0

\* C13 as stated: if all features are zero and no value is missing, no refinement
\* is found for any feature, and induceRule returns (false, +infinity).
AllZeroReturnsInfinity ==
    (AllFeaturesZero /\ pc \in {"finish", "done"}) =>
        /\ model.rules = <<>>
        /\ currentQuality = InfScore

\* C13, amended: if all features are zero and no value is missing, no refinement
\* is found for any feature, and induceRule returns false together with the
\* currentQuality it has been given, which is 0 at the first call.
AllZeroReturnsCurrentQuality ==
    AllFeaturesZero =>
        /\ \A j \in FeatureIndices : ruleRefinements[j].refinement.head = NoHead
        /\ bestHead = NoHead
        /\ model.rules = <<>>
        /\ currentQuality = ZeroScore
        /\ pc \in {"finish", "done"} => ~foundRefinement /\ conditions = <<>>

\* induceRule has searched all features, which are all zero, and has returned
AllZeroSearched ==
    /\ AllFeaturesZero
    /\ pc = "finish"
    /\ \A j \in FeatureIndices : ruleRefinements[j].state = "done"
    /\ stoppingCriterionResult.action # FORCE_STOP

----------------------------------------------------------------------------
(* Properties of the driver *)

\* C14: the driver adds a default rule with an empty body to the model builder if
\* and only if a default-rule head refinement factory has been provided, so that
\* the number of rules handed to the stopping criteria, which is 1 with a factory
\* and 0 without at first, always equals the number of rules of the model builder.
RuleCountMatchesModelBuilder ==
    pc # "start" =>
        /\ numRules = Len(model.rules)
        /\ \A k \in DOMAIN criterionResults :
              criterionResults[k].numRules = Len(model.rules)
        /\ hasDefaultRule <=>
              (model.rules # <<>> /\ model.rules[1].conditions = <<>>)

\* The vectors that the visitors have received so far: one prediction vector per
\* committed rule, the last of which is the current one, and the ground truth, once
\* the model has been built
VisitorState ==
    /\ Len(visited.predictions) = Len(model.rules)
    /\ visited.predictions # <<>> =>
          visited.predictions[Len(visited.predictions)] = prediction
    /\ visited.groundTruth = (IF pc = "done" THEN <<groundTruth>> ELSE <<>>)
    /\ model.built <=> pc = "done"

\* The prediction visitor is invoked by the commit of a rule, before the stopping
\* criteria are tested again, with the predictions that include the rule; the
\* ground-truth visitor is invoked when the loop has been left, together with
\* IModelBuilder::build
VisitorStep ==
    /\ visited'.predictions # visited.predictions =>
          /\ pc = "loop" /\ pc' = "test"
          /\ model'.rules # model.rules
          /\ visited'.predictions = Append(visited.predictions, prediction')
    /\ visited'.groundTruth # visited.groundTruth =>
          /\ pc = "finish" /\ pc' = "done"
          /\ ~model.built /\ model'.built

\* C15: in every run of induceRules, the prediction visitor is invoked exactly once
\* per committed rule, after the applyPrediction of the rule and before the next
\* test of the stopping criteria, with the prediction vector that includes the rule;
\* the ground-truth visitor is invoked exactly once, after the last call of the
\* prediction visitor and before IModelBuilder::build, whether the loop has been
\* left because of FORCE_STOP or because induceRule has failed.
VisitorsInvokedOnce == []VisitorState /\ [][VisitorStep]_vars

\* After the commit of a rule, the stopping criteria have returned FORCE_STOP, and
\* the model has been built
BuiltAfterForceStop ==
    /\ pc = "done"
    /\ criterionResults # <<>>
    /\ stoppingCriterionResult.action = FORCE_STOP
    /\ Len(visited.predictions) >= 1

\* The examples of the current sub-sample whose raw feature values satisfy the first
\* k conditions of a body
CoveredBySubSample(body, k) == {i \in RawCovered(body, k) : weights[i] > 0}

\* C16: a candidate condition is rejected whenever it covers fewer than minCoverage
\* examples, so that every condition of a rule that has been committed covers at
\* least minCoverage examples with a positive weight in the sub-sample the rule has
\* been induced from.
ConditionsCoverMinCoverage ==
    (pc = "test" /\ model.rules # <<>>) =>
        LET body == model.rules[Len(model.rules)].conditions
        IN  \A k \in DOMAIN body :
                Cardinality(CoveredBySubSample(body, k)) >= minCoverage

\* The commit of a rule, learned with a minimum support of 0 and at most one
\* condition, marks an example as covered and counts it
SingleConditionCommit ==
    (minCoverage = 0 /\ maxConditions = 1 /\ model'.rules # model.rules) =>
        /\ Len(conditions) = 1
        /\ \E i \in ExampleIndices :
              /\ isCovered(coverageMask, i)
              /\ coverageCount'[i] = coverageCount[i] + 1

----------------------------------------------------------------------------
(* End-to-end scenarios *)

\* Is the run the one of a scenario?
RunOf(scenario) ==
    /\ numRows = scenario.numRows
    /\ timeSlots = scenario.timeSlots
    /\ groundTruth = scenario.groundTruth
    /\ featureValues = scenario.featureValues
    /\ missingValues = scenario.missingValues
    /\ nominalMask = scenario.nominalMask
    /\ minCoverage = scenario.minCoverage
    /\ maxConditions = scenario.maxConditions
    /\ hasDefaultRule = scenario.hasDefaultRule
    /\ instanceSampling = scenario.instanceSampling
    /\ featureSampling = scenario.featureSampling
    /\ numCriteria = scenario.numCriteria

\* The score -1
MinusOne == [kind |-> "fin", num2 |-> 1, den |-> 1]

\* C18: scenario S1.  For six examples in the time slots [0,0,1,1,2,2], the ground
\* truth [2,0,2], one numerical feature with the values [1,1,0,0,1,1], minSupport =
\* 0.1 and maxConditions = 1, a first rule is induced; it is `f > 0.5` (the
\* threshold is 1 in half-units), its numCovered is 4, the prediction vector after
\* its commit is [2,0,2] and the score that is returned is -1.
FirstRuleOfPerfectNumericalRule ==
    RunOf(PerfectNumericalRule) =>
        /\ pc \in {"finish", "done"} => model.rules # <<>>
        /\ model.rules # <<>> =>
              LET rule == model.rules[1]
              IN  /\ Len(rule.conditions) = 1
                  /\ rule.conditions[1].featureIndex = 0
                  /\ rule.conditions[1].comparator = GR
                  /\ rule.conditions[1].threshold = 1
                  /\ rule.conditions[1].numCovered = 4
                  /\ ScoreEqual(rule.head, MinusOne)
                  /\ visited.predictions[1] = [t \in 0..2 |-> IF t = 1 THEN 0 ELSE 2]
        /\ (pc = "test" /\ Len(model.rules) = 1) =>
              /\ prediction = [t \in 0..2 |-> IF t = 1 THEN 0 ELSE 2]
              /\ ScoreEqual(currentQuality, MinusOne)
              /\ {i \in ExampleIndices : isCovered(coverageMask, i)} = {0, 1, 4, 5}

\* The first rule of scenario S1 has been committed
PerfectNumericalRuleCommitted ==
    RunOf(PerfectNumericalRule) /\ pc = "test" /\ Len(model.rules) = 1

\* Scenario S2 as it is stated: for four examples in the time slots [0,0,1,1], the
\* ground truth [1,1] and one nominal feature with the values [0,1,1,0], the rule
\* `f == 1` is induced with numCovered = 2, the prediction [1,1] and the score -1
NominalSplitInducesRule ==
    (\E scenario \in NominalSplit : RunOf(scenario)) =>
        (pc \in {"finish", "done"} =>
            /\ model.rules # <<>>
            /\ Len(model.rules[1].conditions) >= 1
            /\ model.rules[1].conditions[1].comparator = EQ
            /\ model.rules[1].conditions[1].threshold = 2
            /\ model.rules[1].conditions[1].numCovered = 2
            /\ ScoreEqual(model.rules[1].head, MinusOne)
            /\ visited.predictions[1] = [t \in 0..1 |-> 1])

\* C19: scenario S2, amended.  For four examples in the time slots [0,0,1,1], the
\* ground truth [1,1] and one nominal feature with the values [0,1,1,0], no rule is
\* induced: the ground truth has no variance, the score of every candidate is NaN,
\* induceRule fails at its first call, the predictions stay [0,0] and the model
\* stays empty.
NominalSplitInducesNoRule ==
    (\E scenario \in NominalSplit : RunOf(scenario)) =>
        /\ model.rules = <<>>
        /\ numRules = 0
        /\ visited.predictions = <<>>
        /\ prediction = [t \in 0..1 |-> 0]
        /\ currentQuality = ZeroScore
        /\ bestHead = NoHead
        /\ ruleRefinements[0].refinement.head.kind \in {"none", "nan"}

\* The run of scenario S2 has ended, after the search has evaluated a candidate
NominalSplitSearched ==
    /\ \E scenario \in NominalSplit : RunOf(scenario)
    /\ pc = "done"
    /\ ruleRefinements[0].state = "done"
    /\ ruleRefinements[0].refinement.head.kind = "nan"

\* Scenario S3 as it is stated: for four examples in the time slots [0,0,1,1], the
\* ground truth [0,2] and one numerical feature with the values [0,0,3,5], the
\* zeros of which are sparse, the rule that is induced has a condition `f > z` with
\* 0 < z <= 3 (6 in half-units), and it covers the examples 2 and 3 and no other
SparseZeroRuleCoversBothExamples ==
    (\E scenario \in SparseZeroSeparatesSlots : RunOf(scenario)) =>
        /\ pc \in {"finish", "done"} => model.rules # <<>>
        /\ model.rules # <<>> =>
              LET body == model.rules[1].conditions
              IN  /\ \E k \in DOMAIN body : /\ body[k].comparator = GR
                                            /\ body[k].threshold > 0
                                            /\ body[k].threshold <= 6
                  /\ RawCovered(body, Len(body)) = {2, 3}

\* C20: scenario S3, amended.  For four examples in the time slots [0,0,1,1], the
\* ground truth [0,2] and one numerical feature with the values [0,0,3,5], the
\* zeros of which are sparse, exactly one rule is induced.  Its only condition is
\* `f > 4` (8 in half-units), the mean of the two largest values, which is the
\* first candidate of the search: it covers example 3 only, its prediction [0,1]
\* has the score -1 already, and no later candidate is strictly better.
SparseZeroRuleCoversLastExample ==
    (\E scenario \in SparseZeroSeparatesSlots : RunOf(scenario)) =>
        /\ pc \in {"finish", "done"} => Len(model.rules) = 1
        /\ model.rules # <<>> =>
              LET body == model.rules[1].conditions
              IN  /\ Len(model.rules) = 1
                  /\ Len(body) = 1
                  /\ body[1].comparator = GR
                  /\ body[1].threshold = 8
                  /\ body[1].numCovered = 1
                  /\ RawCovered(body, 1) = {3}
                  /\ {i \in ExampleIndices : commitCoverage[i] > 0} = {3}
                  /\ ScoreEqual(model.rules[1].head, MinusOne)
                  /\ visited.predictions = <<[t \in 0..1 |-> t]>>

\* The run of scenario S3 has ended with a rule
SparseZeroRuleInduced ==
    /\ \E scenario \in SparseZeroSeparatesSlots : RunOf(scenario)
    /\ pc = "done"
    /\ model.rules # <<>>

\* C21: scenario S4.  For four examples, of which example 2 has a missing value
\* of the feature and the examples 0, 1 and 3 have the value 1, findRefinement
\* evaluates no split of the feature, and induceRule returns false.
MissingValueIsNoValueClass ==
    (\E scenario \in MissingValuesIgnored : RunOf(scenario)) =>
        /\ ruleRefinements[0].refinement.head = NoHead
        /\ bestHead = NoHead
        /\ model.rules = <<>>

----------------------------------------------------------------------------
(* Properties of the filtered cache, of adjustSplit and of the search *)

\* C22: the vector of every entry of the filtered cache holds, in its elements and
\* in its missing indices, exactly those examples of the vector of the feature that
\* the conditions of the rule cover, up to the number of conditions of the entry;
\* for an entry that is up to date these are the examples the coverage mask marks
\* as covered, so that no vector handed to findRefinement holds an uncovered one.
FilteredVectorHoldsCoveredExamples ==
    \A j \in FeatureIndices :
        (cacheFiltered[j].hasVector /\ cacheFiltered[j].numConditions = numModifications) =>
            LET base == FetchFeatureVector(j)
            IN  /\ cacheFiltered[j].elements
                       = SelectSeq(base.elements, LAMBDA e : isCovered(coverageMask, e.index))
                /\ cacheFiltered[j].missing
                       = {i \in base.missing : isCovered(coverageMask, i)}

\* The calls of adjustSplit on its own.  A feature vector is sorted by its values
\* and holds no zero; the positions are those of a refinement, -1 and the number of
\* elements included, and such that adjustSplit reads elements of the vector only;
\* a threshold is a value, or lies between two values.
SplitVectors ==
    UNION {{v \in [1..n -> [value : FeatureValueDomain \ {0}, index : 0..(n - 1)]] :
               /\ \A k \in 1..n : v[k].index = k - 1
               /\ \A k \in 1..(n - 1) : v[k].value <= v[k + 1].value} :
           n \in 0..MaxSplitLength}

SplitThresholds == {-8, -5, -2, -1, 2, 4, 8, 12}

SplitCalls ==
    {[elements |-> v, conditionEnd |-> e, conditionPrevious |-> p, threshold |-> t,
      calls |-> 0, adjusted |-> 0, adjustedAgain |-> 0] :
        v \in SplitVectors, e \in -1..MaxSplitLength, p \in -1..MaxSplitLength,
        t \in SplitThresholds}

AdjustSplitInit ==
    /\ InitOfTraining
    /\ labelMatrix = NoLabelMatrix
    /\ RunOf(PerfectNumericalRule)
    /\ totalPrediction = [t \in TimeSlotIndices |-> 0]
    /\ split \in {c \in SplitCalls : /\ c.conditionEnd <= Len(c.elements)
                                     /\ c.conditionPrevious <= Len(c.elements)
                                     /\ c.conditionEnd = c.conditionPrevious =>
                                            c.conditionEnd >= 1}

\* p = adjustSplit(v, conditionEnd, conditionPrevious, threshold)
AdjustSplitOnce ==
    /\ split.calls = 0
    /\ split' = [split EXCEPT !.calls = 1,
                              !.adjusted = adjustSplit(split.elements, split.conditionEnd,
                                                       split.conditionPrevious,
                                                       split.threshold)]
    /\ UNCHANGED <<trainingVars, labelMatrix>>

\* adjustSplit(v, p, conditionPrevious, threshold)
AdjustSplitAgain ==
    /\ split.calls = 1
    /\ split' = [split EXCEPT !.calls = 2,
                              !.adjustedAgain = adjustSplit(split.elements, split.adjusted,
                                                            split.conditionPrevious,
                                                            split.threshold)]
    /\ UNCHANGED <<trainingVars, labelMatrix>>

AdjustSplitNext == AdjustSplitOnce \/ AdjustSplitAgain

AdjustSplitSpec == AdjustSplitInit /\ [][AdjustSplitNext]_vars

\* C23: adjustSplit is idempotent: for every sorted feature vector, threshold,
\* conditionPrevious and conditionEnd, if p is the position that adjustSplit returns
\* for conditionEnd, then adjustSplit returns p for p.
AdjustSplitIdempotent ==
    split.calls = 2 => split.adjustedAgain = split.adjusted

\* adjustSplit has been called again with a position that it has adjusted by two
\* elements, and that is followed by an element on the other side of the threshold
AdjustedSplitAdjustedAgain ==
    /\ split.calls = 2
    /\ Abs(split.adjusted - split.conditionEnd) = 2
    /\ Abs(split.conditionPrevious - split.adjusted) > 1

\* The positions strictly between conditionEnd and conditionPrevious up to which
\* every element, from the one next to conditionEnd on, lies on the side of the
\* threshold that conditionEnd is adjusted for: `value <= threshold` in ascending,
\* `value > threshold` in descending direction
AdjustableRun(elements, conditionEnd, conditionPrevious, threshold) ==
    LET ascending == conditionEnd < conditionPrevious
        Between(a, b) == IF a < b THEN (a + 1)..(b - 1) ELSE (b + 1)..(a - 1)
        Holds(q) == IF ascending THEN elements[q + 1].value <= threshold
                    ELSE elements[q + 1].value > threshold
    IN  {p \in Between(conditionEnd, conditionPrevious) :
            \A q \in Between(conditionEnd, conditionPrevious) :
                (IF ascending THEN q <= p ELSE q >= p) => Holds(q)}

\* The position that is the farthest from conditionEnd in a run, conditionEnd itself
\* if the run is empty
EndOfRun(run, conditionEnd) ==
    IF run = {} THEN conditionEnd
    ELSE CHOOSE p \in run : \A q \in run : Abs(q - conditionEnd) <= Abs(p - conditionEnd)

\* The step of filterThresholds: the end of the refinement that is committed is the
\* end of the adjustable run, for the threshold of the refinement, if there are
\* examples with zero weights and previous and end are more than one position
\* apart, and the end that the search has found otherwise
AdjustmentStep ==
    (pc = "parallel" /\ pc' = "loop" /\ foundRefinement') =>
        LET j == bestRefinement'.featureIndex
            found == ruleRefinements[j].refinement
            run == AdjustableRun(CurrentVector(j).elements, found.end, found.previous,
                                 found.threshold)
            adjusted == bestRefinement'.end
        IN  /\ bestRefinement' = [found EXCEPT !.end = adjusted]
            /\ conditions'[Len(conditions')].end = adjusted
            /\ conditions'[Len(conditions')].threshold = found.threshold
            /\ IF hasZeroWeights(weights) /\ Abs(found.previous - found.end) > 1
               THEN /\ adjusted = EndOfRun(run, found.end)
                    /\ adjusted # found.previous
                    /\ (found.end < found.previous) <=> (adjusted < found.previous)
               ELSE adjusted = found.end

TotalPredictionCountsMaskedExamples ==
    pc \in {"loop", "parallel"} =>
        \A t \in TimeSlotIndices :
            /\ totalPrediction[t]
                   = prediction[t] + Cardinality({i \in SlotExamples(t) :
                                                     /\ isCovered(coverageMask, i)
                                                     /\ coverageCount[i] = 0})
            /\ totalPrediction[t] >= 0
            /\ totalPrediction[t] <= Cardinality(SlotExamples(t))

\* Are two scores the same, NaN being the same as NaN?
SameScore(a, b) ==
    /\ a.kind = b.kind
    /\ a.kind = "fin" => a.num2 * b.den = b.num2 * a.den

\* The examples at the positions [start, end) of the refinement of a feature, which
\* the condition of the refinement does not cover if `covered` is false
RangeOfRefinement(j) ==
    LET refinement == ruleRefinements[j].refinement
        descending == refinement.end < refinement.start
        start == IF descending THEN refinement.end + 1 ELSE refinement.start
        end == IF descending THEN refinement.start + 1 ELSE refinement.end
    IN  IndicesOf(SubVector(CurrentVector(j).elements, start, end))

\* The predictions of the rule that the complement of the range of the refinement
\* of a feature gives: the examples of the sub-sample that the rule covers so far
\* and that are not in the range, with or without the examples whose value of the
\* feature is missing
ComplementPrediction(j, withMissing) ==
    [t \in TimeSlotIndices |->
        prediction[t] + Cardinality({i \in SlotExamples(t) :
                                        /\ coverageCount[i] = 0
                                        /\ weights[i] # 0
                                        /\ isCovered(coverageMask, i)
                                        /\ i \notin RangeOfRefinement(j)
                                        /\ withMissing \/ i \notin CurrentVector(j).missing})]

\* C26: in every phase of the search, a candidate that is scored on the predictions
\* of the uncovered examples, i.e. on the complement of its range, leaves out the
\* examples whose value of the feature is missing, after a call of resetSubset as
\* well as before.
ComplementScoredWithoutMissing ==
    \A j \in FeatureIndices :
        LET refinement == ruleRefinements[j].refinement
        IN  (/\ pc = "parallel"
             /\ ruleRefinements[j].state = "done"
             /\ refinement.head # NoHead
             /\ ~refinement.covered) =>
                SameScore(refinement.head,
                          calculateLabelWisePrediction(ComplementPrediction(j, FALSE)))

\* The predictions of the rule that the range of the refinement of a feature gives:
\* the examples of the sub-sample in the range that no rule covers yet
RangePrediction(j) ==
    [t \in TimeSlotIndices |->
        prediction[t] + Cardinality({i \in SlotExamples(t) :
                                        /\ coverageCount[i] = 0
                                        /\ weights[i] # 0
                                        /\ i \in RangeOfRefinement(j)})]

\* Is the refinement of a feature a candidate of the last phase of the search, which
\* separates the examples with a negative value from the other ones?
IsBridgeCandidate(j) ==
    LET refinement == ruleRefinements[j].refinement
        elements == CurrentVector(j).elements
        negative == {k \in DOMAIN elements : elements[k].value < 0}
    IN  /\ pc = "parallel"
        /\ ruleRefinements[j].state = "done"
        /\ refinement.head # NoHead
        /\ ~nominalMask[j]
        /\ negative # {}
        /\ \E i \in ExampleIndices : /\ weights[i] # 0
                                     /\ isCovered(coverageMask, i)
                                     /\ i \notin CurrentVector(j).missing
                                     /\ \A k \in negative : elements[k].index # i
        /\ \E k \in negative : weights[elements[k].index] # 0
        /\ refinement.start = 0
        /\ refinement.end = Cardinality(negative)
        /\ \A k \in negative : elements[k].value < refinement.threshold
        /\ \/ refinement.comparator = LEQ /\ refinement.covered
           \/ refinement.comparator = GR /\ ~refinement.covered

\* C27: for a numerical feature with examples of positive weight with a negative
\* value and with examples of positive weight with another value, the candidate
\* `f <= t` that separates the two is scored on the predictions plus the examples
\* with a negative value that are in the sub-sample and not covered yet, i.e. on
\* the examples that filterThresholds marks as covered if the refinement is
\* committed, and the candidate `f > t` on the examples that are covered so far
\* without those and without the missing ones; the examples that have been added
\* to the subset while the other values have been iterated enter neither vector.
BridgeCandidateScoredOnItsExamples ==
    \A j \in FeatureIndices :
        IsBridgeCandidate(j) =>
            SameScore(ruleRefinements[j].refinement.head,
                      calculateLabelWisePrediction(
                          IF ruleRefinements[j].refinement.covered
                          THEN RangePrediction(j)
                          ELSE ComplementPrediction(j, FALSE)))

\* The examples of the sub-sample that satisfy the conditions of the current rule
CoveredExamplesOfSubSample ==
    {i \in ExampleIndices : weights[i] # 0 /\ isCovered(coverageMask, i)}

\* C28: whenever a rule refinement is created, the number of covered examples it
\* is given is the number of examples with a positive weight that the coverage mask
\* marks as covered, so the examples with a missing value for the feature of a
\* condition are not counted any more once the condition has been added.
NumCoveredExamplesMatchesMask ==
    pc = "parallel" =>
        \A j \in FeatureIndices :
            ruleRefinements[j].state # "none" =>
                ruleRefinements[j].numExamples = Cardinality(CoveredExamplesOfSubSample)

\* The training runs without stopping criteria and with an unlimited number of
\* conditions
InduceRulesInit ==
    /\ split = NoSplit
    /\ labelMatrix = NoLabelMatrix
    /\ \E run \in UnlimitedRuns : InputsOfRun(run)
    /\ InitOfObjects

\* A step of induceRules as the program counter and the order of completion show it:
\* every step but the task of a feature moves the program counter, and the task of a
\* feature is appended to the order of completion. A step is possible until the
\* model has been built.
InduceRulesStep ==
    /\ pc # "done"
    /\ \/ /\ pc' \in {"test", "induce", "loop", "parallel", "finish", "done"} \ {pc}
          /\ completionOrder' \in {completionOrder, <<>>}
       \/ /\ pc' = pc
          /\ \E j \in FeatureIndices : completionOrder' = Append(completionOrder, j)

\* The thread that runs induceRules is never stopped for good, and the parallel loop
\* runs the task of every feature
InduceRulesSpec ==
    InduceRulesInit /\ [][Next]_vars /\ WF_<<pc, completionOrder>>(InduceRulesStep)

\* Every step of the training run is a step that the fairness condition counts
StepsAreInduceRulesSteps == [][InduceRulesStep]_vars

\* C29: induceRules terminates even if the list of stopping criteria is empty and
\* the number of conditions is unlimited: eventually the model has been built.
InduceRulesTerminates == <>(pc = "done")

\* A training run without stopping criteria and with an unlimited number of
\* conditions has ended with a rule of several conditions and a rule after it
UnlimitedRunTerminated ==
    /\ pc = "done"
    /\ model.built
    /\ maxConditions = -1
    /\ numCriteria = 0
    /\ Len(model.rules) >= 2
    /\ \E k \in DOMAIN model.rules : Len(model.rules[k].conditions) >= 2

-----------------------------------------------------------------------------
(* The construction of the label matrix *)

\* The content of an element of a DenseVector<uint32> that has been allocated by
\* malloc, but not written
UninitialisedCounts == {0, 7}

\* The timestamps of the examples
Timestamps == 0..2

\* The C-contiguous arrays with two columns, the timestamp and the label of an
\* example, that the label matrix is constructed from
LabelArrays ==
    UNION {[0..(n - 1) -> [timestamp : Timestamps, label : 0..1]] : n \in 1..MaxNumRows}

\* DenseVector<T>::DenseVector(numElements): malloc of numElements elements
DenseVector(numElements, uninitialised) ==
    [k \in 0..(numElements - 1) |-> uninitialised]

\* iterator[k] = value: the element is stored if it lies inside the array
WriteElement(vector, k, value) ==
    IF k \in DOMAIN vector THEN [vector EXCEPT ![k] = value] ELSE vector

\* DenseVector<T>::setNumElements(numElements, true): realloc keeps the elements
\* up to the smaller one of the old and the new size; what an element holds that
\* is new to the array is not defined, it may be what has been written behind the
\* end of the old array
setNumElements(vector, numElements, behindTheEnd) ==
    [k \in 0..(numElements - 1) |-> IF k \in DOMAIN vector THEN vector[k]
                                    ELSE behindTheEnd]

\* The loop of the constructor from the example exampleIndex on
RECURSIVE ReadExamples(_, _, _)
ReadExamples(array, exampleIndex, m) ==
    IF exampleIndex >= Cardinality(DOMAIN array) THEN m
    ELSE LET timestamp == array[exampleIndex].timestamp
             changed == timestamp # m.previousTimestamp
             timeSlotIndex == IF changed THEN m.timeSlotIndex + 1 ELSE m.timeSlotIndex
             m1 == IF changed
                   THEN [m EXCEPT
                            !.timeSlotIndex = timeSlotIndex,
                            !.indices_ = WriteElement(@, timeSlotIndex, exampleIndex),
                            !.values_ = WriteElement(@, timeSlotIndex,
                                                     array[exampleIndex].label),
                            !.previousTimestamp = timestamp,
                            !.written = @ \cup {<<"indices_", timeSlotIndex>>,
                                                <<"values_", timeSlotIndex>>}]
                   ELSE m
         IN  ReadExamples(array, exampleIndex + 1,
                          [m1 EXCEPT
                              !.timeSlots_ = WriteElement(@, exampleIndex, timeSlotIndex),
                              !.written = @ \cup {<<"timeSlots_", exampleIndex>>}])

\* CContiguousLabelMatrix::CContiguousLabelMatrix(numRows, 2, array)
CContiguousLabelMatrix(numRowsOfArray, array, uninitialised, behindTheEnd) ==
    LET allocated == DenseVector(numRowsOfArray, uninitialised)
        first == [timeSlots_ |-> WriteElement(allocated, 0, 0),
                  indices_ |-> WriteElement(allocated, 0, 0),
                  values_ |-> WriteElement(allocated, 0, array[0].label),
                  timeSlotIndex |-> 0,
                  previousTimestamp |-> array[0].timestamp,
                  written |-> {<<"timeSlots_", 0>>, <<"indices_", 0>>, <<"values_", 0>>}]
        m == ReadExamples(array, 1, first)
        numTimeSlotsOfArray == m.timeSlotIndex + 1
        withEndMarker == WriteElement(m.indices_, m.timeSlotIndex + 1, numRowsOfArray)
    IN  [numRows |-> numRowsOfArray,
         array |-> array,
         calls |-> 1,
         timeSlots_ |-> m.timeSlots_,
         indices_ |-> setNumElements(withEndMarker, numTimeSlotsOfArray + 1, behindTheEnd),
         values_ |-> setNumElements(m.values_, numTimeSlotsOfArray, behindTheEnd),
         numTimeSlots |-> numTimeSlotsOfArray,
         written |-> m.written \cup {<<"indices_", m.timeSlotIndex + 1>>}]

LabelMatrixInit ==
    /\ InitOfTraining
    /\ RunOf(PerfectNumericalRule)
    /\ totalPrediction = [t \in TimeSlotIndices |-> 0]
    /\ split = NoSplit
    /\ \E array \in LabelArrays :
          labelMatrix = [NoLabelMatrix EXCEPT !.numRows = Cardinality(DOMAIN array),
                                              !.array = array]

\* labelMatrix = CContiguousLabelMatrix(numRows, 2, array)
ConstructLabelMatrix ==
    /\ labelMatrix.calls = 0
    /\ \E uninitialised \in UninitialisedCounts :
          \E behindTheEnd \in {labelMatrix.numRows, uninitialised} :
             labelMatrix' = CContiguousLabelMatrix(labelMatrix.numRows, labelMatrix.array,
                                                   uninitialised, behindTheEnd)
    /\ UNCHANGED <<trainingVars, split>>

LabelMatrixNext == ConstructLabelMatrix

LabelMatrixSpec == LabelMatrixInit /\ [][LabelMatrixNext]_vars

\* The examples of the time slot t according to the indices of the label matrix
ExamplesOfRange(t) ==
    {i \in 0..(labelMatrix.numRows - 1) :
        labelMatrix.indices_[t] <= i /\ i < labelMatrix.indices_[t + 1]}

\* C30: the constructor of the label matrix writes only to elements of the vectors
\* timeSlots_, indices_ and values_ that it has allocated, i.e. to the elements
\* 0..numRows-1, the end marker indices_[numTimeSlots] = numRows included, and
\* afterwards the ranges [indices_[t], indices_[t+1]) of the time slots partition the
\* examples such that the range of t holds exactly the examples with timeSlots_[i] = t.
LabelMatrixWritesInsideItsVectors ==
    labelMatrix.calls = 1 =>
        /\ \A w \in labelMatrix.written : w[2] < labelMatrix.numRows
        /\ labelMatrix.indices_[labelMatrix.numTimeSlots] = labelMatrix.numRows
        /\ \A t \in 0..(labelMatrix.numTimeSlots - 1) :
              ExamplesOfRange(t) = {i \in 0..(labelMatrix.numRows - 1) :
                                       labelMatrix.timeSlots_[i] = t}
        /\ \A i \in 0..(labelMatrix.numRows - 1) :
              labelMatrix.timeSlots_[i] \in 0..(labelMatrix.numTimeSlots - 1)

====
